---- MODULE Spec2Model ----
(***************************************************************************)
(* The ESC/POS stream interpreter of escpresso (src/src/main.rs):          *)
(* EscPosRenderer::process_data with its command handlers, and the read    *)
(* loop of handle_client that feeds it and drains its two queues.          *)
(*                                                                         *)
(* Bytes are the integers 0..255.  Rust indexes from 0, TLA+ sequences     *)
(* from 1: At(data, i) is data[i] of the source.                           *)
(***************************************************************************)
EXTENDS Integers, Sequences, FiniteSets, TLC

VARIABLES
  cmds,             \* the commands the client sends, each a byte sequence
  sent,             \* how many bytes of them the socket has delivered so far
  renderer,         \* the connection's EscPosRenderer
  pc,               \* where handle_client stands in its read loop
  socket_out,       \* every byte written back to the client
  app_elements,     \* AppState.elements, the renderer buffer
  overflow_checks,  \* build profile: does integer overflow panic (debug) or wrap (release)
  connections,      \* AppState.connections, one string per entry
  addr,             \* the peer address of the connection
  peer              \* the handle_client task of a second connection, if any

vars == <<cmds, sent, renderer, pc, socket_out, app_elements, overflow_checks,
          connections, addr, peer>>

\* ---------------------------------------------------------------- bytes
ESC == 27
GS == 29
FS == 28
DLE == 16
LF == 10
FF == 12
CR == 13
HT == 9
CAN == 24
DC2 == 18
SOH == 1
STX == 2
ETX == 3
EOT == 4
ENQ == 5
ACK == 6
BEL == 7
BS == 8
VT == 11
SO == 14
SI == 15
DC1 == 17
DC3 == 19
DC4 == 20
ETB == 23
RS == 30

\* ------------------------------------------------------------- helpers
At(data, i) == data[i + 1]

\* data[a..b] of the source (b exclusive)
Slice(data, a, b) == SubSeq(data, a + 1, b)

Min(a, b) == IF a < b THEN a ELSE b

Max(a, b) == IF a > b THEN a ELSE b

\* usize::div_ceil
DivCeil(a, b) == (a + b - 1) \div b

\* usize::saturating_sub
SaturatingSub(a, b) == IF a > b THEN a - b ELSE 0

\* bit k with the bits counted from 1
BitCountedFromOne(n, k) == (n \div (2 ^ (k - 1))) % 2 = 1

\* (n >> k) & 1 != 0
Bit(n, k) == (n \div (2 ^ k)) % 2 = 1

\* x as i16, for x in -65536..131071
AsI16(x) == ((x + 65536 + 32768) % 65536) - 32768

\* x as u16 for an i16 x
AsU16(x) == (x + 65536) % 65536

RECURSIVE Repeat(_, _)
Repeat(x, n) == IF n = 0 THEN <<>> ELSE <<x>> \o Repeat(x, n - 1)

\* ------------------------------------------------------- PrinterState
\* PrinterState::default()
DefaultState ==
  [ bold |-> FALSE, underline |-> FALSE, double_width |-> FALSE,
    double_height |-> FALSE, inverted |-> FALSE, alignment |-> "Left",
    print_density |-> 4, encoding |-> "UTF_8", code_page |-> 0,
    horizontal_offset |-> 0, left_margin |-> 0, print_area_width |-> 0,
    line_spacing |-> 30, character_spacing |-> 0, double_strike |-> FALSE,
    font |-> 0 ]

\* EscPosRenderer::new (the buffer is kept with it; debug only traces)
NewRenderer ==
  [ state |-> DefaultState, current_line |-> <<>>, buffer |-> <<>>,
    elements |-> <<>>, in_command_sequence |-> FALSE, qr_data |-> <<>>,
    qr_size |-> 3, qr_error_correction |-> 0, response_queue |-> <<>>,
    last_was_binary |-> FALSE ]

\* A handler's outcome: Ok(new_i) with the renderer as the handler left it,
\* or a panic (index out of bounds, arithmetic overflow) that unwinds.
Ret(self, i) == [self |-> self, i |-> i, panic |-> FALSE]

Panic(self) == [self |-> self, i |-> 0, panic |-> TRUE]

\* ------------------------------------------------------- text decoding
\* The code point one byte of current_line decodes to.  current_line only
\* ever holds 0x20..0x7E and 0x80..0xFF.  Below 0x80 every decoder used is
\* the identity on ASCII.  Above, the tables are given for 0xAA, the one
\* high byte the inputs below use; any other high byte decodes to a code
\* that is distinct per (decoder, byte).
HighByte(table, b) ==
  IF b = 170
    THEN CASE table = "CP437" -> 172
           [] table = "WINDOWS_1252" -> 170
           [] table = "WINDOWS_1251" -> 1028
           [] table = "WINDOWS_1250" -> 350
           [] OTHER -> 65386
    ELSE CASE table = "CP437" -> 100000 + b
           [] table = "WINDOWS_1252" -> 200000 + b
           [] table = "WINDOWS_1251" -> 300000 + b
           [] table = "WINDOWS_1250" -> 400000 + b
           [] OTHER -> 500000 + b

\* flush_line: code page 0 goes through the CP437 table, any other code
\* page through state.encoding
DecodeLine(st, line) ==
  LET table == IF st.code_page = 0 THEN "CP437" ELSE st.encoding
  IN [k \in 1..Len(line) |->
        IF line[k] < 128 THEN line[k] ELSE HighByte(table, line[k])]

\* flush_line with the attributes of PrinterState::default() in the element
flush_line_default_attrs(self) ==
  IF self.current_line = <<>> THEN self
  ELSE LET st == DefaultState
           text == [ type |-> "Text",
                     content |-> DecodeLine(self.state, self.current_line),
                     bold |-> st.bold, underline |-> st.underline,
                     double_width |-> st.double_width,
                     double_height |-> st.double_height,
                     inverted |-> st.inverted, alignment |-> st.alignment,
                     density |-> st.print_density,
                     offset |-> st.horizontal_offset,
                     left_margin |-> st.left_margin,
                     character_spacing |-> st.character_spacing,
                     double_strike |-> st.double_strike, font |-> st.font,
                     print_area_width |-> st.print_area_width ]
       IN [self EXCEPT !.elements = Append(@, text),
                       !.state.horizontal_offset = 0]

\* flush_line without the reset of horizontal_offset
flush_line_keeps_offset(self) ==
  IF self.current_line = <<>> THEN self
  ELSE LET st == self.state
           text == [ type |-> "Text",
                     content |-> DecodeLine(st, self.current_line),
                     bold |-> st.bold, underline |-> st.underline,
                     double_width |-> st.double_width,
                     double_height |-> st.double_height,
                     inverted |-> st.inverted, alignment |-> st.alignment,
                     density |-> st.print_density,
                     offset |-> st.horizontal_offset,
                     left_margin |-> st.left_margin,
                     character_spacing |-> st.character_spacing,
                     double_strike |-> st.double_strike, font |-> st.font,
                     print_area_width |-> st.print_area_width ]
       IN [self EXCEPT !.elements = Append(@, text)]

\* EscPosRenderer::flush_line
flush_line(self) ==
  IF self.current_line = <<>> THEN self
  ELSE LET st == self.state
           text == [ type |-> "Text",
                     content |-> DecodeLine(st, self.current_line),
                     bold |-> st.bold, underline |-> st.underline,
                     double_width |-> st.double_width,
                     double_height |-> st.double_height,
                     inverted |-> st.inverted, alignment |-> st.alignment,
                     density |-> st.print_density,
                     offset |-> st.horizontal_offset,
                     left_margin |-> st.left_margin,
                     character_spacing |-> st.character_spacing,
                     double_strike |-> st.double_strike, font |-> st.font,
                     print_area_width |-> st.print_area_width ]
       IN [self EXCEPT !.elements = Append(@, text),
                       !.state.horizontal_offset = 0]

\* the recurring "flush any pending text" block of the image handlers
FlushPending(self) ==
  IF self.current_line # <<>>
    THEN [flush_line(self) EXCEPT !.current_line = <<>>]
    ELSE self

\* column_to_raster with the rows of a column byte counted from its lowest bit
RasterByteLsbFirst(column_data, width, height, idx) ==
  LET bytes_per_column == height \div 8
      bytes_per_row == DivCeil(width, 8)
      y == idx \div bytes_per_row
      byte_in_col == y \div 8
      bit == y % 8
      Pixel(col) ==
        IF col >= width THEN 0
        ELSE IF col * bytes_per_column + byte_in_col >= Len(column_data) THEN 0
        ELSE IF Bit(At(column_data, col * bytes_per_column + byte_in_col), bit)
          THEN 2 ^ (7 - (col % 8)) ELSE 0
      c0 == (idx % bytes_per_row) * 8
  IN Pixel(c0) + Pixel(c0 + 1) + Pixel(c0 + 2) + Pixel(c0 + 3)
     + Pixel(c0 + 4) + Pixel(c0 + 5) + Pixel(c0 + 6) + Pixel(c0 + 7)

\* --------------------------------------------------------- ESC * raster
\* EscPosRenderer::column_to_raster: byte idx of the row-major result.  The
\* source ORs one pixel at a time into raster_data; each (row byte, bit) is
\* written from exactly one (col, byte_in_col, bit), so the OR is a sum.
RasterByte(column_data, width, height, idx) ==
  LET bytes_per_column == height \div 8
      bytes_per_row == DivCeil(width, 8)
      y == idx \div bytes_per_row
      byte_in_col == y \div 8
      bit == y % 8
      Pixel(col) ==
        IF col >= width THEN 0
        ELSE IF col * bytes_per_column + byte_in_col >= Len(column_data) THEN 0
        ELSE IF Bit(At(column_data, col * bytes_per_column + byte_in_col), 7 - bit)
          THEN 2 ^ (7 - (col % 8)) ELSE 0
      c0 == (idx % bytes_per_row) * 8
  IN Pixel(c0) + Pixel(c0 + 1) + Pixel(c0 + 2) + Pixel(c0 + 3)
     + Pixel(c0 + 4) + Pixel(c0 + 5) + Pixel(c0 + 6) + Pixel(c0 + 7)

column_to_raster(column_data, width, height) ==
  [k \in 1..(DivCeil(width, 8) * height) |->
     RasterByte(column_data, width, height, k - 1)]

RasterImage(self, width, height, bytes, bytes_per_line) ==
  [ type |-> "RasterImage", width |-> width, height |-> height,
    data |-> bytes, offset |-> self.state.horizontal_offset,
    density |-> self.state.print_density,
    alignment |-> self.state.alignment,
    bytes_per_line |-> bytes_per_line,
    print_area_width |-> self.state.print_area_width ]

\* the tail of the raster handlers without the reset of horizontal_offset
EmitRasterKeepsOffset(self, width, height, bytes, bytes_per_line) ==
  LET flushed == FlushPending(self)
  IN [flushed EXCEPT
        !.elements = Append(@, RasterImage(flushed, width, height, bytes,
                                           bytes_per_line)),
        !.last_was_binary = TRUE]

\* the tail of the raster handlers with the element pushed before the pending
\* text is flushed
EmitRasterBeforeText(self, width, height, bytes, bytes_per_line) ==
  LET pushed == [self EXCEPT
                   !.elements = Append(@, RasterImage(self, width, height, bytes,
                                                      bytes_per_line))]
      flushed == FlushPending(pushed)
  IN [flushed EXCEPT !.state.horizontal_offset = 0,
                     !.last_was_binary = TRUE]

\* the tail shared by the three raster handlers: flush pending text, push the
\* element, reset the offset, set last_was_binary
EmitRaster(self, width, height, bytes, bytes_per_line) ==
  LET flushed == FlushPending(self)
  IN [flushed EXCEPT
        !.elements = Append(@, RasterImage(flushed, width, height, bytes,
                                           bytes_per_line)),
        !.state.horizontal_offset = 0,
        !.last_was_binary = TRUE]

\* handle_raster_graphics that consumes the header when the column data has
\* not arrived yet
handle_raster_graphics_skips_header(self, data, i) ==
  LET start_i == i - 2
      m == At(data, i)
      width == At(data, i + 1) + At(data, i + 2) * 256
      height == IF m \in {32, 33} THEN 24 ELSE 8
      pos == i + 3
      total_bytes == width * (height \div 8)
  IN IF i + 3 > Len(data) THEN Ret(self, start_i)
     ELSE IF width = 0 \/ width > 10000 THEN Ret(self, pos)
     ELSE IF total_bytes > 1000000 THEN Ret(self, pos)
     ELSE IF pos + total_bytes > Len(data) THEN Ret(self, pos)
     ELSE Ret(EmitRaster(self, width, height,
                         column_to_raster(Slice(data, pos, pos + total_bytes),
                                          width, height),
                         DivCeil(width, 8)),
              pos + total_bytes)

\* EscPosRenderer::handle_raster_graphics (ESC * m nL nH d1..dk); i is the
\* index of m
handle_raster_graphics(self, data, i) ==
  LET start_i == i - 2
      m == At(data, i)
      width == At(data, i + 1) + At(data, i + 2) * 256
      height == IF m \in {32, 33} THEN 24 ELSE 8
      pos == i + 3
      total_bytes == width * (height \div 8)
  IN IF i + 3 > Len(data) THEN Ret(self, start_i)
     ELSE IF width = 0 \/ width > 10000 THEN Ret(self, pos)
     ELSE IF total_bytes > 1000000 THEN Ret(self, pos)
     ELSE IF pos + total_bytes > Len(data) THEN Ret(self, start_i)
     ELSE IF pos >= Len(data) \/ pos + total_bytes > Len(data)
       THEN Ret(self, start_i)
     ELSE Ret(EmitRaster(self, width, height,
                         column_to_raster(Slice(data, pos, pos + total_bytes),
                                          width, height),
                         DivCeil(width, 8)),
              pos + total_bytes)

\* EscPosRenderer::handle_raster_graphics_gs (GS v 0 m xL xH yL yH d1..dk);
\* i is the index of the byte after 'v'
handle_raster_graphics_gs(self, data, i) ==
  LET start_i == i - 2
      width_in_bytes == At(data, i + 2) + At(data, i + 3) * 256
      height == At(data, i + 4) + At(data, i + 5) * 256
      width == width_in_bytes * 8
      pos == i + 6
      total_bytes == width_in_bytes * height
  IN IF i + 6 > Len(data) THEN Ret(self, start_i)
     ELSE IF width_in_bytes = 0 \/ height = 0 THEN Ret(self, pos)
     ELSE IF width > 10000 \/ height > 10000
       THEN IF total_bytes > 5000000 THEN Ret(self, start_i)
            ELSE IF pos + total_bytes > Len(data) THEN Ret(self, start_i)
            ELSE Ret(self, pos + total_bytes)
     ELSE IF total_bytes > 5000000 THEN Ret(self, pos)
     ELSE IF pos + total_bytes > Len(data) THEN Ret(self, start_i)
     ELSE IF pos >= Len(data) \/ pos + total_bytes > Len(data)
       THEN Ret(self, start_i)
     ELSE Ret(EmitRaster(self, width, height,
                         Slice(data, pos, pos + total_bytes), width_in_bytes),
              pos + total_bytes)

\* EscPosRenderer::handle_gs_8l (GS 8 L p1..p4 m fn a bx by c xL xH yL yH
\* d1..dk); i is the index of 'L'.  The header guard admits a buffer that
\* ends at c's predecessor, and the read of c (data[i + 9] after the skip of
\* 'L') then indexes past the end: a panic.
handle_gs_8l(self, data, i0) ==
  LET start_i == i0 - 1
      i == i0 + 1
      data_len == At(data, i) + At(data, i + 1) * 256
                  + At(data, i + 2) * 65536 + At(data, i + 3) * 16777216
      m == At(data, i + 4)
      j == i + 10
      width == At(data, j) + At(data, j + 1) * 256
      height == At(data, j + 2) + At(data, j + 3) * 256
      k == j + 4
      image_bytes == DivCeil(width, 8) * height
      skip == SaturatingSub(data_len, 6)
  IN IF i0 + 10 > Len(data) THEN Ret(self, start_i)
     ELSE IF i + 9 >= Len(data) THEN Panic(self)
     ELSE IF m = 48 \/ m = 112
       THEN IF j + 4 > Len(data) THEN Ret(self, start_i)
            ELSE IF data_len > 100000 \/ image_bytes > 5000000
              THEN IF k + skip <= Len(data) THEN Ret(self, k + skip)
                   ELSE Ret(self, start_i)
            ELSE IF k + image_bytes > Len(data) THEN Ret(self, start_i)
            ELSE Ret(EmitRaster(self, width, height,
                                Slice(data, k, k + image_bytes),
                                DivCeil(width, 8)),
                     k + image_bytes)
     ELSE Ret(self, j + Min(skip, Len(data) - j))

\* ------------------------------------------------------------- QR code
\* String::from_utf8_lossy on qr_data, as code points: ASCII, two-byte
\* sequences (lead 0xC2..0xDF, continuation 0x80..0xBF), and U+FFFD for a
\* byte that starts no valid sequence.  Leads of three- and four-byte
\* sequences (0xE0..0xF4) do not occur in the inputs below.
RECURSIVE from_utf8_lossy(_)
from_utf8_lossy(bytes) ==
  IF bytes = <<>> THEN <<>>
  ELSE LET b == Head(bytes)
       IN IF b < 128 THEN <<b>> \o from_utf8_lossy(Tail(bytes))
          ELSE IF b >= 194 /\ b <= 223 /\ Len(bytes) >= 2
                  /\ bytes[2] >= 128 /\ bytes[2] <= 191
            THEN <<(b - 192) * 64 + (bytes[2] - 128)>>
                 \o from_utf8_lossy(Tail(Tail(bytes)))
          ELSE <<65533>> \o from_utf8_lossy(Tail(bytes))

\* clamp left out: the module size as the client sent it
ClampNone(x, lo, hi) == x

\* usize::clamp
Clamp(x, lo, hi) == IF x < lo THEN lo ELSE IF x > hi THEN hi ELSE x

\* EscPosRenderer::handle_qr_code (GS ( k pL pH cn fn ...); i0 is the index
\* of 'k'.  The header guard admits a buffer that ends at cn, and the read of
\* fn (data[i + 3] after the skip of 'k') then indexes past the end: a panic.
handle_qr_code(self, data, i0) ==
  LET start_i == i0 - 1
      i1 == i0 + 1
      param_len == At(data, i1) + At(data, i1 + 1) * 256
      cn == At(data, i1 + 2)
      fn_code == At(data, i1 + 3)
      i == i1 + 4
      data_len == SaturatingSub(param_len, 3)
      flushed == FlushPending(self)
      qr == [ type |-> "QrCode", data |-> from_utf8_lossy(self.qr_data),
              size |-> Clamp(self.qr_size, 1, 16),
              alignment |-> flushed.state.alignment,
              offset |-> flushed.state.horizontal_offset,
              print_area_width |-> flushed.state.print_area_width ]
  IN IF i0 + 4 > Len(data) THEN Ret(self, start_i)
     ELSE IF i1 + 3 >= Len(data) THEN Panic(self)
     ELSE IF cn # 49
       THEN Ret(self, i + Min(SaturatingSub(param_len, 2), Len(data) - i))
     ELSE CASE fn_code \in {65, 67} ->
                 IF i < Len(data)
                   THEN Ret(IF fn_code = 67
                              THEN [self EXCEPT !.qr_size = At(data, i)]
                              ELSE self, i + 1)
                   ELSE Ret(self, i)
            [] fn_code = 69 ->
                 IF i < Len(data)
                   THEN Ret([self EXCEPT !.qr_error_correction = At(data, i)],
                            i + 1)
                   ELSE Ret(self, i)
            [] fn_code = 80 ->
                 IF i + data_len > Len(data) THEN Ret(self, start_i)
                 ELSE Ret([self EXCEPT !.qr_data = Slice(data, i, i + data_len)],
                          i + data_len)
            [] fn_code = 81 ->
                 IF self.qr_data # <<>>
                   THEN Ret([flushed EXCEPT !.elements = Append(@, qr),
                                            !.state.horizontal_offset = 0,
                                            !.qr_data = <<>>], i)
                   ELSE Ret(self, i)
            [] OTHER ->
                 Ret(self, i + Min(SaturatingSub(param_len, 2), Len(data) - i))

\* ------------------------------------------------------------ paper cut
\* EscPosRenderer::handle_paper_cut; i is the index of the mode byte.  The
\* handler calls flush_line and does not clear current_line.
handle_paper_cut(self, data, i) ==
  LET mode == At(data, i)
      cut_type == CASE mode \in {0, 48} -> "FULL CUT"
                    [] mode \in {1, 49} -> "PARTIAL CUT"
                    [] mode = 65 -> "FEED & FULL CUT"
                    [] mode = 66 -> "FEED & PARTIAL CUT"
                    [] OTHER -> "UNKNOWN CUT"
  IN Ret([flush_line(self) EXCEPT
            !.elements = Append(@, [type |-> "PaperCut", cut_type |-> cut_type])],
         i + 1)

\* ----------------------------------------------------------- ESC family
\* "i += 1; if i < data.len() { i += 1; }": the command byte and one
\* parameter byte if there is one
SkipOneParam(self, data, i0) ==
  IF i0 + 1 < Len(data) THEN Ret(self, i0 + 2) ELSE Ret(self, i0 + 1)

\* "while i < data.len() && data[i] != 0 { i += 1; }"
RECURSIVE ScanToNul(_, _)
ScanToNul(data, i) ==
  IF i < Len(data) /\ At(data, i) # 0 THEN ScanToNul(data, i + 1) ELSE i

\* the encoding ESC t selects
EncodingFor(n) ==
  CASE n = 17 -> "WINDOWS_1251"
    [] n = 18 -> "WINDOWS_1250"
    [] n \in {20, 21, 255} -> "SHIFT_JIS"
    [] OTHER -> "WINDOWS_1252"

\* ESC \ nL nH: ((horizontal_offset as i16) + relative_offset).max(0) as u16.
\* The i16 addition overflows for some operands: a panic with overflow
\* checks, a wrap without.
RelativeOffset(nl, nh) == nl + AsI16(nh * 256)

EscBackslash(self, data, i) ==
  LET sum == AsI16(self.state.horizontal_offset)
             + RelativeOffset(At(data, i), At(data, i + 1))
  IN IF (sum > 32767 \/ sum < -32768) /\ overflow_checks THEN Panic(self)
     ELSE Ret([self EXCEPT !.state.horizontal_offset = AsU16(Max(AsI16(sum), 0))],
              i + 2)

\* ESC @ that resets the character attributes and keeps the layout fields
EscInitKeepsLayout(self) ==
  [self EXCEPT !.state = [DefaultState EXCEPT
                            !.left_margin = self.state.left_margin,
                            !.print_area_width = self.state.print_area_width]]

\* ESC @ that also clears last_was_binary
EscInitClearsBinary(self) ==
  [self EXCEPT !.state = DefaultState, !.last_was_binary = FALSE]

\* ESC @: self.state = PrinterState::default()
EscInit(self) == [self EXCEPT !.state = DefaultState]

\* EscPosRenderer::handle_esc_command; i0 is the index of the command byte
handle_esc_command(self, data, i0) ==
  LET cmd == At(data, i0)
      i == i0 + 1
      has1 == i < Len(data)
      n == At(data, i)
  IN CASE cmd = 64 -> Ret(EscInit(self), i)
       [] cmd = 69 ->
            IF has1 THEN Ret([self EXCEPT !.state.bold = (n = 1)], i + 1)
            ELSE Ret(self, i)
       [] cmd = 45 ->
            IF has1 THEN Ret([self EXCEPT !.state.underline = (n = 1 \/ n = 2)], i + 1)
            ELSE Ret(self, i)
       [] cmd = 97 ->
            IF has1
              THEN Ret([self EXCEPT !.state.alignment =
                          CASE n = 1 -> "Center" [] n = 2 -> "Right" [] OTHER -> "Left"],
                       i + 1)
              ELSE Ret(self, i)
       [] cmd = 33 ->
            IF has1
              THEN Ret([self EXCEPT !.state.bold = Bit(n, 3),
                                    !.state.double_height = Bit(n, 4),
                                    !.state.double_width = Bit(n, 5),
                                    !.state.underline = Bit(n, 7)], i + 1)
              ELSE Ret(self, i)
       [] cmd \in {100, 74} ->
            IF has1
              THEN Ret([self EXCEPT !.elements =
                          @ \o Repeat([type |-> "Separator"], n)], i + 1)
              ELSE Ret(self, i)
       [] cmd = 42 -> handle_raster_graphics(self, data, i)
       [] cmd = 126 ->
            IF has1 THEN Ret([self EXCEPT !.state.print_density = Min(n, 8)], i + 1)
            ELSE Ret(self, i)
       [] cmd = 112 ->
            IF i + 2 < Len(data)
              THEN Ret([self EXCEPT !.elements =
                          Append(@, [type |-> "CashDrawer", pin |-> n,
                                     on_time |-> At(data, i + 1),
                                     off_time |-> At(data, i + 2)])], i + 3)
              ELSE Ret(self, i)
       [] cmd = 32 ->
            IF has1 THEN Ret([self EXCEPT !.state.character_spacing = n], i + 1)
            ELSE Ret(self, i)
       [] cmd = 36 ->
            IF i + 1 < Len(data)
              THEN Ret([self EXCEPT !.state.horizontal_offset =
                          n + At(data, i + 1) * 256], i + 2)
              ELSE Ret(self, i)
       [] cmd = 92 ->
            IF i + 1 < Len(data) THEN EscBackslash(self, data, i)
            ELSE Ret(self, i)
       [] cmd \in {75, 76, 89, 90} ->
            IF i + 1 < Len(data)
              THEN LET width == n + At(data, i + 1) * 256
                       bytes_needed == IF cmd \in {89, 90} THEN width * 2 ELSE width
                   IN IF i + 2 + bytes_needed <= Len(data)
                        THEN Ret(self, i + 2 + bytes_needed)
                        ELSE Ret(self, i + 2)
              ELSE Ret(self, i)
       [] cmd = 68 ->
            LET z == ScanToNul(data, i)
            IN IF z < Len(data) THEN Ret(self, z + 1) ELSE Ret(self, z)
       [] cmd \in {83, 84, 85, 87} ->
            IF has1
              THEN IF cmd = 87 /\ i + 7 < Len(data) THEN Ret(self, i + 8)
                   ELSE Ret(self, i + 1)
              ELSE Ret(self, i)
       [] cmd = 99 ->
            IF i + 1 < Len(data) THEN Ret(self, i + 2) ELSE Ret(self, i)
       [] cmd \in {105, 60} -> Ret(self, i)
       [] cmd = 116 ->
            IF has1
              THEN Ret([self EXCEPT !.state.code_page = n,
                                    !.state.encoding = EncodingFor(n)], i + 1)
              ELSE Ret(self, i)
       [] cmd = 77 ->
            IF has1 THEN Ret([self EXCEPT !.state.font = n], i + 1)
            ELSE Ret(self, i)
       [] cmd = 50 -> Ret([self EXCEPT !.state.line_spacing = 30], i)
       [] cmd = 51 ->
            IF has1 THEN Ret([self EXCEPT !.state.line_spacing = n], i + 1)
            ELSE Ret(self, i)
       [] cmd = 71 ->
            IF has1 THEN Ret([self EXCEPT !.state.double_strike = (n # 0)], i + 1)
            ELSE Ret(self, i)
       [] cmd = 40 ->
            IF i + 2 < Len(data)
              THEN Ret(self, i + 3 + At(data, i + 1) + At(data, i + 2) * 256)
              ELSE Ret(self, i)
       [] cmd = 38 ->
            IF i + 2 < Len(data)
              THEN LET y == n
                       c1 == At(data, i + 1)
                       c2 == At(data, i + 2)
                       num_chars == IF c2 >= c1 THEN c2 - c1 + 1 ELSE 0
                       bytes_per_char == y * DivCeil(12, 8)
                   IN Ret(self, i + 3 + num_chars * bytes_per_char)
              ELSE Ret(self, i)
       \* s, ACK, u, v, R, r, %, {, V, ?, = and every unknown command
       [] OTHER -> SkipOneParam(self, data, i0)

\* ------------------------------------------------------------ GS family
\* the reverse-channel byte patterns
StatusDle == <<18>>
StatusGsR == <<8>>
StatusAsb == <<16, 0, 0, 0>>
IdManufacturer == <<95, 67, 73, 84, 73, 90, 69, 78, 0>>
IdModel == <<95, 67, 84, 45, 83, 51, 49, 48, 0>>

\* GS I with the two identity strings exchanged
IdentityReplySwapped(n) ==
  CASE n = 66 -> IdModel
    [] n = 67 -> IdManufacturer
    [] OTHER -> <<>>

\* GS I n: the reply queued for n
IdentityReply(n) ==
  CASE n = 66 -> IdManufacturer
    [] n = 67 -> IdModel
    [] OTHER -> <<>>

\* GS 8 fn p1..p4 data (fn # 'L'); i0 is the index of '8'
Gs8Other(self, data, i0) ==
  LET start_i == i0 - 1
      i == i0 + 2
      len == At(data, i) + At(data, i + 1) * 256
             + At(data, i + 2) * 65536 + At(data, i + 3) * 16777216
      skip == Min(len, 1000000)
  IN IF i + 4 > Len(data) THEN Ret(self, start_i)
     ELSE IF i + 4 + skip > Len(data) THEN Ret(self, start_i)
     ELSE Ret(self, i + 4 + skip)

\* GS k m ...; i is the index of the barcode type
GsK(self, data, i) ==
  LET barcode_type == At(data, i)
      j == i + 1
      z == ScanToNul(data, j)
  IN IF barcode_type < 6
       THEN IF z < Len(data) THEN Ret(self, z + 1) ELSE Ret(self, z)
       ELSE IF j < Len(data) THEN Ret(self, j + 1 + At(data, j))
            ELSE Ret(self, j)

\* EscPosRenderer::handle_gs_command; i0 is the index of the command byte
handle_gs_command(self, data, i0) ==
  LET cmd == At(data, i0)
      i == i0 + 1
      has1 == i < Len(data)
      n == At(data, i)
  IN CASE cmd = 56 ->
            IF has1
              THEN IF n = 76 THEN handle_gs_8l(self, data, i)
                   ELSE Gs8Other(self, data, i0)
              ELSE Ret(self, i)
       [] cmd = 86 ->
            IF has1 THEN handle_paper_cut(self, data, i) ELSE Ret(self, i)
       [] cmd = 118 ->
            IF has1 THEN handle_raster_graphics_gs(self, data, i)
            ELSE Ret(self, i)
       [] cmd = 33 ->
            IF has1
              THEN Ret([self EXCEPT !.state.double_width = ((n % 8) + 1 > 1),
                                    !.state.double_height =
                                       (((n \div 16) % 8) + 1 > 1)], i + 1)
              ELSE Ret(self, i)
       [] cmd = 66 ->
            IF has1 THEN Ret([self EXCEPT !.state.inverted = (n = 1)], i + 1)
            ELSE Ret(self, i)
       [] cmd = 76 ->
            IF i + 1 < Len(data)
              THEN Ret([self EXCEPT !.state.left_margin =
                          n + At(data, i + 1) * 256], i + 2)
              ELSE Ret(self, i)
       [] cmd = 87 ->
            IF i + 1 < Len(data)
              THEN Ret([self EXCEPT !.state.print_area_width =
                          n + At(data, i + 1) * 256], i + 2)
              ELSE Ret(self, i)
       [] cmd = 107 ->
            IF has1 THEN GsK(self, data, i) ELSE Ret(self, i)
       [] cmd = 40 ->
            IF has1
              THEN IF n = 107 THEN handle_qr_code(self, data, i)
                   ELSE IF i + 2 < Len(data)
                     THEN Ret(self, i + 3 + At(data, i + 1) + At(data, i + 2) * 256)
                     ELSE Ret(self, i)
              ELSE Ret(self, i)
       [] cmd = 97 ->
            IF has1
              THEN Ret(IF n # 0
                         THEN [self EXCEPT !.response_queue = @ \o StatusAsb]
                         ELSE self, i + 1)
              ELSE Ret(self, i)
       [] cmd = 73 ->
            IF has1
              THEN Ret([self EXCEPT !.response_queue = @ \o IdentityReply(n)],
                       i + 1)
              ELSE Ret(self, i)
       [] cmd = 114 ->
            IF has1
              THEN Ret([self EXCEPT !.response_queue = @ \o StatusGsR], i + 1)
              ELSE Ret(self, i)
       [] cmd = 36 ->
            IF i + 1 < Len(data) THEN Ret(self, i + 2) ELSE Ret(self, i)
       \* H, h, w, 0x00, 0x80, 0xF7 and every unknown command
       [] OTHER -> SkipOneParam(self, data, i0)

\* ------------------------------------------------------------ FS family
\* the FS arm of process_data after the introducer and the command byte;
\* j is the index after the command byte.  Returns the new cursor.
FsCursor(data, cmd, j) ==
  LET L == Len(data)
  IN CASE cmd = 46 ->
            IF j < L /\ At(data, j) \notin {ESC, GS, FS, DLE} THEN j + 1 ELSE j
       [] cmd = 112 -> IF j + 1 < L THEN j + 2 ELSE j
       [] cmd = 113 ->
            IF j < L
              THEN LET n == At(data, j)
                       k == j + 1
                       width == At(data, k) + At(data, k + 1) * 256
                       height == At(data, k + 2) + At(data, k + 3) * 256
                       data_size == DivCeil(width, 8) * height
                   IN IF n > 0 /\ k + 4 < L
                        THEN k + 4 + Min(data_size, L - k)
                        ELSE k
              ELSE j
       [] cmd = 40 ->
            IF j + 3 < L
              THEN j + 3 + Min(At(data, j + 1) + At(data, j + 2) * 256, L - j)
              ELSE j
       [] cmd \in {67, 103, 33, 38, 83, 45} -> IF j < L THEN j + 1 ELSE j
       [] OTHER ->
            IF j < L /\ (At(data, j) < 27 \/ At(data, j) > 126)
              THEN IF j + 1 < L /\ At(data, j) > 127
                      /\ (At(data, j + 1) < 27 \/ At(data, j + 1) > 126)
                     THEN j + 2 ELSE j + 1
              ELSE j

\* ----------------------------------------------------------- dispatch
\* One iteration of the while loop of process_data at cursor i: the
\* renderer and cursor it leaves, whether it breaks out of the loop, and
\* whether it panics.
Go(self, i) == [self |-> self, i |-> i, stop |-> FALSE, panic |-> FALSE]

Break(self, i) == [self |-> self, i |-> i, stop |-> TRUE, panic |-> FALSE]

Unwind(self) == [self |-> self, i |-> 0, stop |-> TRUE, panic |-> TRUE]

\* the tail of the ESC and GS arms without the reset of in_command_sequence
AfterHandlerKeepsFlag(r, i, start_pos) ==
  IF r.panic THEN Unwind(r.self)
  ELSE IF r.i = i \/ r.i <= start_pos THEN Break(r.self, start_pos)
  ELSE Go(r.self, r.i)

\* the tail of the ESC and GS arms with the rewind to the start of the buffer
AfterHandlerRewindsToStart(r, i, start_pos) ==
  IF r.panic THEN Unwind(r.self)
  ELSE IF r.i = i \/ r.i <= start_pos THEN Break(r.self, 0)
  ELSE Go([r.self EXCEPT !.in_command_sequence = FALSE], r.i)

\* the tail of the ESC and GS arms: rewind when the handler made no progress
AfterHandler(r, i, start_pos) ==
  IF r.panic THEN Unwind(r.self)
  ELSE IF r.i = i \/ r.i <= start_pos THEN Break(r.self, start_pos)
  ELSE Go([r.self EXCEPT !.in_command_sequence = FALSE], r.i)

DleArm(self, data, start_pos) ==
  LET s1 == [self EXCEPT !.in_command_sequence = TRUE]
      i == start_pos + 2
      subcmd == At(data, start_pos + 1)
      done(s, k) == Go([s EXCEPT !.in_command_sequence = FALSE], k)
  IN IF start_pos + 1 >= Len(data) THEN Break(s1, start_pos)
     ELSE IF subcmd \in {4, 5}
       THEN IF i < Len(data)
              THEN done([s1 EXCEPT !.response_queue = @ \o StatusDle], i + 1)
              ELSE done(s1, i)
     ELSE IF subcmd = 20
       THEN IF i + 1 < Len(data) THEN done(s1, i + 2) ELSE done(s1, i)
     ELSE done(s1, i)

Dc2Arm(self, data, start_pos) ==
  LET i == start_pos + 1
  IN IF i < Len(data) /\ At(data, i) = 35
       THEN IF i + 1 < Len(data)
              THEN Go([self EXCEPT !.state.print_density =
                         Min(At(data, i + 1) \div 32, 8)], i + 2)
              ELSE Go(self, i + 1)
       ELSE Go([self EXCEPT !.state.bold = FALSE], i)

\* the ESC arm without the rewind on a lone ESC: the byte is consumed
EscArmDropsLoneEsc(self, data, start_pos) ==
  LET s1 == [self EXCEPT !.in_command_sequence = TRUE]
      i == start_pos + 1
  IN IF i >= Len(data) THEN Go(s1, i)
     ELSE AfterHandler(handle_esc_command(s1, data, i), i, start_pos)

EscArm(self, data, start_pos) ==
  LET s1 == [self EXCEPT !.in_command_sequence = TRUE]
      i == start_pos + 1
  IN IF i >= Len(data) THEN Break(s1, start_pos)
     ELSE AfterHandler(handle_esc_command(s1, data, i), i, start_pos)

GsArm(self, data, start_pos) ==
  LET s1 == [self EXCEPT !.in_command_sequence = TRUE]
      i == start_pos + 1
  IN IF i >= Len(data) THEN Break(s1, start_pos)
     ELSE AfterHandler(handle_gs_command(s1, data, i), i, start_pos)

FsArm(self, data, start_pos) ==
  LET s1 == [self EXCEPT !.in_command_sequence = TRUE]
      i == start_pos + 1
  IN IF i >= Len(data) THEN Break(s1, start_pos)
     ELSE Go([s1 EXCEPT !.in_command_sequence = FALSE],
             FsCursor(data, At(data, i), i + 1))

\* the LF arm with the cursor left on the LF when it flushes a line
LfArmFlushesInPlace(self, i) ==
  LET s1 == [self EXCEPT !.in_command_sequence = FALSE,
                         !.last_was_binary = FALSE]
  IN IF s1.current_line # <<>>
       THEN Go([flush_line(s1) EXCEPT !.current_line = <<>>], i)
       ELSE IF s1.elements # <<>>
         THEN Go([s1 EXCEPT !.elements = Append(@, [type |-> "Separator"])],
                 i + 1)
         ELSE Go(s1, i + 1)

LfArm(self, i) ==
  LET s1 == [self EXCEPT !.in_command_sequence = FALSE,
                         !.last_was_binary = FALSE]
  IN IF s1.current_line # <<>>
       THEN Go([flush_line(s1) EXCEPT !.current_line = <<>>], i + 1)
       ELSE IF s1.elements # <<>>
         THEN Go([s1 EXCEPT !.elements = Append(@, [type |-> "Separator"])],
                 i + 1)
         ELSE Go(s1, i + 1)

\* the CR arm with the blank-line branch of the LF arm
CrArmFeeds(self, i) ==
  LET s1 == [self EXCEPT !.in_command_sequence = FALSE,
                         !.last_was_binary = FALSE]
  IN IF s1.current_line # <<>>
       THEN Go([flush_line(s1) EXCEPT !.current_line = <<>>], i + 1)
       ELSE IF s1.elements # <<>>
         THEN Go([s1 EXCEPT !.elements = Append(@, [type |-> "Separator"])],
                 i + 1)
         ELSE Go(s1, i + 1)

CrArm(self, i) ==
  LET s1 == [self EXCEPT !.in_command_sequence = FALSE,
                         !.last_was_binary = FALSE]
  IN Go(FlushPending(s1), i + 1)

\* the FF arm without the test of the last element
FfArmAlwaysAppends(self, i) ==
  Go([self EXCEPT !.current_line = <<>>,
                  !.elements = Append(@, [type |-> "FormFeed"])], i + 1)

FfArm(self, i) ==
  LET s1 == [self EXCEPT !.current_line = <<>>]
      lastIsFormFeed == s1.elements # <<>>
                        /\ s1.elements[Len(s1.elements)].type = "FormFeed"
  IN IF lastIsFormFeed THEN Go(s1, i + 1)
     ELSE Go([s1 EXCEPT !.elements = Append(@, [type |-> "FormFeed"])], i + 1)

Printable(byte) == (byte >= 32 /\ byte <= 126) \/ (byte >= 128 /\ byte <= 255)

\* the printable arm without the hold of the last byte
PrintableArmNoHold(self, data, i) ==
  IF ~self.in_command_sequence /\ ~self.last_was_binary
    THEN Go([self EXCEPT !.current_line = Append(@, At(data, i))], i + 1)
    ELSE Go(self, i + 1)

\* the printable arm: the last byte of the buffer is left for the next call
PrintableArm(self, data, i) ==
  IF i = Len(data) - 1 /\ self.buffer # <<>> THEN Break(self, i)
  ELSE IF ~self.in_command_sequence /\ ~self.last_was_binary
    THEN Go([self EXCEPT !.current_line = Append(@, At(data, i))], i + 1)
    ELSE Go(self, i + 1)

Dispatch(self, data, i) ==
  LET byte == At(data, i)
  IN CASE byte = DLE -> DleArm(self, data, i)
       [] byte = DC2 -> Dc2Arm(self, data, i)
       [] byte = BS ->
            Go(IF self.current_line # <<>>
                 THEN [self EXCEPT !.current_line = SubSeq(@, 1, Len(@) - 1)]
                 ELSE self, i + 1)
       [] byte = ESC -> EscArm(self, data, i)
       [] byte = GS -> GsArm(self, data, i)
       [] byte = FS -> FsArm(self, data, i)
       [] byte = LF -> LfArm(self, i)
       [] byte = CR -> CrArm(self, i)
       [] byte = FF -> FfArm(self, i)
       [] byte = HT ->
            Go(IF ~self.in_command_sequence
                 THEN [self EXCEPT !.current_line = @ \o <<32, 32, 32, 32>>]
                 ELSE self, i + 1)
       [] Printable(byte) -> PrintableArm(self, data, i)
       \* CAN, DC1, DC3, DC4, SO, SI, VT, SOH..BEL, ETB, RS and the
       \* remaining control characters, DEL included
       [] OTHER -> Go(self, i + 1)

\* the while loop of process_data
RECURSIVE Loop(_, _, _)
Loop(self, data, i) ==
  IF i >= Len(data) THEN Go(self, i)
  ELSE LET d == Dispatch(self, data, i)
       IN IF d.stop THEN d ELSE Loop(d.self, data, d.i)

\* EscPosRenderer::process_data: the renderer after the call, and whether
\* the call panicked.  self.buffer.drain(0..i) panics when the cursor has
\* run past the end of the buffer.
process_data(self, new_data) ==
  LET data == self.buffer \o new_data
      d == Loop([self EXCEPT !.buffer = data], data, 0)
  IN IF d.panic THEN [self |-> d.self, panic |-> TRUE]
     ELSE IF d.i > Len(data) THEN [self |-> d.self, panic |-> TRUE]
     ELSE [self |-> [d.self EXCEPT !.buffer = Slice(data, d.i, Len(data))],
           panic |-> FALSE]

\* ------------------------------------------------------------- inputs
\* The most commands one client sends in a run.
MaxCmds == 2

\* Commands as the byte sequences a driver sends.  'Q' (0x51) is used for
\* payload bytes and nowhere else, 'A' (0x41) for text.
TxtA == <<65>>
TxtLine == <<65, LF>>
InitTxt == <<ESC, 64, 66, 66>>
CmdHt == <<HT>>
TxtStar == <<65, ESC, 42, 0, 1, 0, 81>>
TxtQr == <<65, GS, 40, 107, 4, 0, 49, 80, 81, GS, 40, 107, 3, 0, 49, 81>>
TxtCut == <<65, GS, 86, 0>>
CmdLf == <<LF>>
CmdCr == <<CR>>
CmdFf == <<FF>>
CmdFf2 == <<FF, FF>>
CmdEscFeed == <<ESC, 100, 1>>
CmdEscInit == <<ESC, 64>>
CmdEscBold == <<ESC, 69, 1>>
\* spec.md scenario 1 (bold "Hi") and the input of test_mixed_content
ScnBoldHi == <<ESC, 64, ESC, 69, 1, 72, 105, ESC, 69, 0, LF>>
ScnMixed == <<72, 101, 108, 108, 111, 32, ESC, 69, 1, 87, 111, 114, 108, 100,
              ESC, 69, 0, 33>>
CmdEscDollar == <<ESC, 36, 5, 0>>
CmdEscRel == <<ESC, 92, 2, 0>>
CmdEscStar == <<ESC, 42, 0, 1, 0, 81>>
CmdEscK == <<ESC, 75, 1, 0, 81>>
CmdGsV0 == <<GS, 118, 48, 0, 1, 0, 1, 0, 81>>
\* raster commands over a sanity cap: GS v 0 of 5001 x 1000 bytes (40008
\* dots wide, 5001000 bytes), ESC * 10001 columns wide
CmdGsV0Huge == <<GS, 118, 48, 0, 137, 19, 232, 3>>
CmdEscStarWide == <<ESC, 42, 0, 17, 39>>
CmdGs8L == <<GS, 56, 76, 11, 0, 0, 0, 48, 67, 48, 1, 1, 49, 1, 0, 1, 0, 81>>
CmdGs8LZero == <<GS, 56, 76, 10, 0, 0, 0, 48, 67, 48, 1, 1, 49, 0, 0, 1, 0>>
\* QR store as spec.md gives it (pL pH = payload + 3, payload after fn)
CmdQrStore == <<GS, 40, 107, 4, 0, 49, 80, 81>>
CmdQrPrint == <<GS, 40, 107, 3, 0, 49, 81>>
CmdQr == CmdQrStore \o CmdQrPrint
\* formatting commands, one or several PrinterState fields each
CmdSetA == <<ESC, 33, 184>> \o <<GS, 76, 9, 0>> \o <<ESC, 116, 17>>
           \o <<ESC, 126, 7>>
CmdSetB == <<GS, 87, 200, 0>> \o <<ESC, 51, 40>> \o <<ESC, 32, 2>>
           \o <<ESC, 77, 1>>
CmdGsCut == <<GS, 86, 0>>
CmdGsR == <<GS, 114, 1>>
CmdDleEot == <<DLE, EOT, 1>>

\* text followed by formatting commands on the same line
CmdSetC == <<GS, 66, 1>> \o <<ESC, 97, 1>> \o <<ESC, 36, 5, 0>>
           \o <<ESC, 71, 1>>
TxtBoldOn == <<65>> \o CmdEscBold
TxtSetA == <<65>> \o CmdSetA
TxtSetB == <<65>> \o CmdSetB
TxtSetC == <<65>> \o CmdSetC
\* one line with bold switched on and off again inside it
TxtMixedLine == <<72, ESC, 69, 1, 87, ESC, 69, 0, 33, LF>>

TxtFfFf == <<65, FF, FF>>
TxtAt5 == <<ESC, 36, 5, 0, 65>>

\* ESC ! and GS ! with mode byte n
CmdEscMode(n) == <<ESC, 33, n>>
CmdGsSize(n) == <<GS, 33, n>>

\* ESC * 10001 columns wide with the first two bytes of its column data
CmdEscStarWideQ == CmdEscStarWide \o <<81, 81>>

\* GS 8 L with a declared length of 12 (the header and two bytes of data)
\* and dimensions 65535 x 65535, over the cap of 5000000 image bytes
CmdGs8LHuge == <<GS, 56, 76, 12, 0, 0, 0, 48, 67, 48, 1, 1, 49, 255, 255, 255,
                 255, 81, 81>>

\* The widest ESC * command a client sends for conversion.
MaxWidth == 9

\* ESC * m nL 0 with its column data
ColumnCmd(m, w, column_data) == <<ESC, 42, m, w, 0>> \o column_data

\* column data: one byte set to v, the others 0
HotData(n, p, v) == [k \in 1..n |-> IF k = p THEN v ELSE 0]

\* ESC a 1, ESC ~ 7, GS W 200, ESC $ 5: the four fields a Raster carries
CmdLayout == <<ESC, 97, 1>> \o <<ESC, 126, 7>> \o <<GS, 87, 200, 0>>
             \o <<ESC, 36, 5, 0>>

\* every sequence of 1..n commands of a library
Programs(lib, n) == UNION {[1..k -> lib] : k \in 1..n}

RECURSIVE Flatten(_)
Flatten(ss) == IF ss = <<>> THEN <<>> ELSE Head(ss) \o Flatten(Tail(ss))

\* the byte stream of the connection
stream == Flatten(cmds)

\* the bytes of one socket.read that returns k bytes
Chunk(k) == SubSeq(stream, sent + 1, sent + k)

\* ---------------------------------------------------- connection list
\* Strings are sequences of characters.  addr.to_string() of three peers:
\* 10.0.0.5:40000, 110.0.0.5:40000 and 10.0.0.6:40000
AddrHost5 == <<"1", "0", ".", "0", ".", "0", ".", "5", ":", "4", "0", "0", "0", "0">>
AddrHost110 == <<"1">> \o AddrHost5
AddrHost6 == <<"1", "0", ".", "0", ".", "0", ".", "6", ":", "4", "0", "0", "0", "0">>

\* format!("Connected: {}", addr)
Entry(a) == <<"C", "o", "n", "n", "e", "c", "t", "e", "d", ":", " ">> \o a

\* str::contains
Contains(s, sub) ==
  \E i \in 0..(Len(s) - Len(sub)) : SubSeq(s, i + 1, i + Len(sub)) = sub

\* connections.retain(|c| !c.contains(&addr.to_string()))
Retain(list, a) == SelectSeq(list, LAMBDA c : ~Contains(c, a))

\* no second connection
NoPeer == [pc |-> "absent"]

\* --------------------------------------------------- handle_client loop
\* the connection is in the list when the read loop starts (main.rs:2416-2419)
InitWith(lib, profiles) ==
  /\ cmds \in Programs(lib, MaxCmds)
  /\ sent = 0
  /\ renderer = NewRenderer
  /\ pc = "read"
  /\ socket_out = <<>>
  /\ app_elements = <<>>
  /\ overflow_checks \in profiles
  /\ addr = AddrHost5
  /\ connections = <<Entry(addr)>>
  /\ peer = NoPeer

\* Overflow can only happen in ESC \; inputs without it behave the same under
\* both build profiles.
Release == {FALSE}
AnyProfile == BOOLEAN

\* text, formatting, positioning, a query of each kind and commands with a
\* payload (ESC ( A with one byte among them)
Init ==
  InitWith({TxtA, CmdLf, CmdEscBold, CmdEscDollar, CmdEscK,
            <<ESC, 40, 65, 1, 0, 81>>, CmdGsR, CmdDleEot, CmdGs8LZero},
           Release)

\* ESC * in 8-dot and 24-dot mode, every width up to MaxWidth, every place of
\* the one byte set
\* one ESC * command per connection, in 8-dot or 24-dot mode
InitColumn ==
  /\ cmds \in {<<c>> : c \in
      UNION {{ColumnCmd(mh[1], w, HotData(w * (mh[2] \div 8), p, v)) :
                  p \in 1..(w * (mh[2] \div 8)), v \in {128, 1, 170, 255}} :
               w \in 1..MaxWidth, mh \in {<<0, 8>>, <<33, 24>>}}}
  /\ sent = 0
  /\ renderer = NewRenderer
  /\ pc = "read"
  /\ socket_out = <<>>
  /\ app_elements = <<>>
  /\ overflow_checks \in Release
  /\ addr = AddrHost5
  /\ connections = <<Entry(addr)>>
  /\ peer = NoPeer

\* socket.read returned k > 0 bytes: renderer.process_data(&buffer[..n]).
\* A panic unwinds the connection's task.
ReadChunk(k) ==
  /\ pc = "read"
  /\ LET r == process_data(renderer, Chunk(k))
     IN /\ renderer' = r.self
        /\ pc' = IF r.panic THEN "panicked" ELSE "respond"
  /\ sent' = sent + k
  /\ UNCHANGED <<cmds, socket_out, app_elements, overflow_checks, connections,
               addr, peer>>

Read == \E k \in 1..(Len(stream) - sent) : ReadChunk(k)

\* the response step left out: the queued bytes stay in the parser while the
\* loop goes on to the elements and the next read
SendResponsesSkipped ==
  /\ pc = "respond"
  /\ pc' = "forward"
  /\ UNCHANGED <<cmds, sent, renderer, socket_out, app_elements, overflow_checks,
               connections, addr, peer>>

\* renderer.take_responses() and socket.write_all
SendResponses ==
  /\ pc = "respond"
  /\ socket_out' = socket_out \o renderer.response_queue
  /\ renderer' = [renderer EXCEPT !.response_queue = <<>>]
  /\ pc' = "forward"
  /\ UNCHANGED <<cmds, sent, app_elements, overflow_checks, connections, addr,
               peer>>

\* take_elements and extend with the lock taken anew for every element
ForwardOneElement ==
  /\ pc = "forward"
  /\ IF renderer.elements = <<>>
       THEN pc' = "read" /\ UNCHANGED <<app_elements, renderer>>
       ELSE /\ app_elements' = Append(app_elements, Head(renderer.elements))
            /\ renderer' = [renderer EXCEPT !.elements = Tail(@)]
            /\ pc' = "forward"
  /\ UNCHANGED <<cmds, sent, socket_out, overflow_checks, connections, addr,
               peer>>

\* renderer.take_elements() and state.elements.extend
ForwardElements ==
  /\ pc = "forward"
  /\ app_elements' = app_elements \o renderer.elements
  /\ renderer' = [renderer EXCEPT !.elements = <<>>]
  /\ pc' = "read"
  /\ UNCHANGED <<cmds, sent, socket_out, overflow_checks, connections, addr,
               peer>>

\* socket.read returned Ok(0): the client has sent everything and closed;
\* connections.retain(|c| !c.contains(&addr.to_string()))
Eof ==
  /\ pc = "read"
  /\ sent = Len(stream)
  /\ pc' = "closed"
  /\ connections' = Retain(connections, addr)
  /\ UNCHANGED <<cmds, sent, renderer, socket_out, app_elements, overflow_checks,
               addr, peer>>

Next == Read \/ SendResponses \/ ForwardElements \/ Eof

Spec == Init /\ [][Next]_vars

\* the status and identity queries among text and formatting: DLE EOT, DLE
\* ENQ, GS r, GS a on and off, GS I for maker, model and an unknown id
SpecQuery ==
  InitWith({CmdDleEot, <<DLE, ENQ, 1>>, CmdGsR, <<GS, 97, 255>>,
            <<GS, 97, 0>>, <<GS, 73, 66>>, <<GS, 73, 67>>, <<GS, 73, 65>>,
            TxtA, TxtLine, CmdEscBold},
           Release)
  /\ [][Next]_vars

\* commands that carry a length-declared payload (GS 8 M and GS k 73 with
\* one byte among them)
SpecPayload ==
  InitWith({TxtLine, CmdEscStar, CmdEscK, CmdGsV0,
            <<GS, 56, 77, 1, 0, 0, 0, 81>>, <<GS, 107, 73, 1, 81>>,
            CmdQrStore},
           Release)
  /\ [][Next]_vars

\* positioning commands among commands that emit an element
SpecOffset ==
  InitWith({CmdEscDollar, CmdEscRel, CmdEscInit, TxtLine, TxtStar, CmdGsV0,
              CmdQr, CmdGsCut},
           AnyProfile)
  /\ [][Next]_vars

\* initialisation, once and twice in a row, among commands that change the
\* printer state (ESC a, GS B, ESC G among them)
SpecInit ==
  InitWith({CmdEscInit, <<ESC, 64, ESC, 64>>, CmdSetA, CmdSetB,
            <<ESC, 97, 1>>, <<GS, 66, 1>>, CmdEscDollar, <<ESC, 71, 1>>,
            TxtLine},
           Release)
  /\ [][Next]_vars

\* raster commands that declare width 0: ESC *, GS v 0, GS 8 L
SpecZero ==
  InitWith({<<ESC, 42, 0, 0, 0>>, <<GS, 118, 48, 0, 0, 0, 1, 0>>,
            CmdGs8LZero, TxtLine, CmdEscBold},
           Release)
  /\ [][Next]_vars

\* the QR messages among text: store and print as spec.md gives them and
\* as tests/command_parsing.rs builds them (an m byte, 0x30, behind fn), and
\* the size message
SpecQr ==
  InitWith({CmdQrStore, <<GS, 40, 107, 4, 0, 49, 80, 48, 81>>,
            CmdQrPrint, <<GS, 40, 107, 3, 0, 49, 81, 48>>,
            <<GS, 40, 107, 3, 0, 49, 67, 5>>, TxtLine},
           Release)
  /\ [][Next]_vars

\* ESC * in its 8-dot and 24-dot modes, with column data that reads as text,
\* as LF and as high bytes
SpecRaster ==
  InitWith({CmdEscStar,
            <<ESC, 42, 0, 8, 0, 170, 85, 170, 85, 170, 85, 170, 85>>,
            <<ESC, 42, 33, 1, 0, 81, 65, 10>>, CmdCr},
           Release)
  /\ [][Next]_vars

\* text between changes of the bold attribute
SpecBold ==
  InitWith({ScnBoldHi, ScnMixed, CmdLf, TxtLine, CmdEscBold},
           Release)
  /\ [][Next]_vars

\* line feeds, form feeds and the feed commands (ESC d 1, ESC J 2) among
\* text
SpecFeed ==
  InitWith({CmdFf, CmdFf2, CmdLf, TxtLine, CmdEscFeed, <<ESC, 74, 2>>,
            CmdEscInit},
           Release)
  /\ [][Next]_vars

\* text among the commands that emit an element and commands that emit none
SpecEmit ==
  InitWith({TxtA, TxtLine, CmdCr, CmdEscStar, CmdGsV0, CmdQr, CmdGsCut,
              CmdEscBold, CmdEscFeed, CmdFf},
           Release)
  /\ [][Next]_vars

\* text in front of a raster, a QR print and a paper cut, among commands that
\* emit one kind of element each
SpecOrder ==
  InitWith({TxtLine, TxtStar, TxtQr, TxtCut, CmdFf, CmdEscFeed, CmdEscBold},
           Release)
  /\ [][Next]_vars

\* the headers of raster commands over a sanity cap (GS v 0 of 5001000
\* bytes, GS v 0 of 1 x 10001 bytes, ESC * 10001 columns wide, GS 8 L with a
\* declared length of 100001), among text and a raster command within the
\* caps
SpecCap ==
  InitWith({CmdGsV0Huge, <<GS, 118, 48, 0, 1, 0, 17, 39>>,
            CmdEscStarWide,
            <<GS, 56, 76, 161, 134, 1, 0, 48, 67, 48, 1, 1, 49, 8, 0, 1, 0>>,
            CmdGsV0, TxtLine},
           Release)
  /\ [][Next]_vars

\* raster commands, text, line terminators and commands that may stand
\* between a raster and the next line
SpecBinary ==
  InitWith({CmdEscStar, CmdGsV0, InitTxt, <<66, 66>>, CmdLf, CmdCr, CmdHt,
              CmdGsCut},
           Release)
  /\ [][Next]_vars

\* text, formatting commands behind text of the same line, line terminators
SpecAttr ==
  InitWith({TxtA, TxtBoldOn, TxtSetA, TxtSetB, TxtSetC, TxtMixedLine,
              CmdEscInit, CmdLf, CmdCr},
           Release)
  /\ [][Next]_vars

\* blank lines in front of, between and behind text, ESC @ and FF
SpecBlank ==
  InitWith({TxtLine, TxtA, CmdLf, CmdEscInit, CmdFf},
           Release)
  /\ [][Next]_vars

\* carriage returns behind text, behind a raster, behind a tab, on an empty
\* line, among line feeds and formatting
SpecCr ==
  InitWith({TxtA, TxtAt5, <<65, CR, CR>>, CmdCr, CmdLf, CmdEscStar, CmdHt,
              CmdEscBold},
           Release)
  /\ [][Next]_vars

\* form feeds behind pending text, behind a flushed line, behind a raster and
\* behind each other
SpecFf ==
  InitWith({TxtA, TxtLine, TxtFfFf, CmdFf, CmdFf2, CmdEscStar, CmdEscBold},
           Release)
  /\ [][Next]_vars

\* ESC ! and GS ! with their mode bytes, among text and other formatting
SpecMode ==
  InitWith({CmdEscMode(n) : n \in {0, 7, 8, 16, 48, 128, 184}}
             \cup {CmdGsSize(n) : n \in {0, 1, 8, 16, 17, 128, 119}}
             \cup {TxtA, CmdSetC},
           Release)
  /\ [][Next]_vars

\* absolute positions over the whole range of ESC $ (5, 32767, 40000),
\* relative moves in both directions (+2, -2)
SpecRel ==
  InitWith({CmdEscDollar, <<ESC, 36, 255, 127>>, <<ESC, 36, 64, 156>>,
            CmdEscRel, <<ESC, 92, 254, 255>>, TxtLine},
           AnyProfile)
  /\ [][Next]_vars

\* an ESC * over the width cap with column data behind it, among text and
\* formatting
SpecWide ==
  InitWith({CmdEscStarWideQ, TxtA, TxtLine, CmdEscBold, CmdSetC},
           Release)
  /\ [][Next]_vars

\* a GS 8 L over the image cap among text and formatting
SpecSkip ==
  InitWith({CmdGs8LHuge, TxtLine, TxtA, CmdEscBold},
           Release)
  /\ [][Next]_vars

SpecColumn == InitColumn /\ [][Next]_vars

\* the three raster commands behind pending text and behind layout commands
SpecFlush ==
  InitWith({TxtA, TxtAt5, CmdLayout, CmdEscStar, CmdGsV0, CmdGs8L},
           Release)
  /\ [][Next]_vars

\* QR store and print among text: a print without a store, two prints behind
\* one store, text pending in front of a print (store, "AA"), module sizes 0
\* and 200 in front of a store and a print, an offset set by ESC $
SpecPrint ==
  InitWith({CmdQrStore, CmdQrPrint, CmdQrStore \o <<65, 65>>,
            <<GS, 40, 107, 3, 0, 49, 67, 0>> \o CmdQr,
            <<GS, 40, 107, 3, 0, 49, 67, 200>> \o CmdQr,
            CmdEscDollar, TxtA},
           Release)
  /\ [][Next]_vars

\* the commands with a length-declared payload that rewind, two payload bytes
\* each: ESC *, GS v 0, GS 8 L in an active mode (m = 48) and in another
\* (m = 49), GS 8 M, the QR store; among text
SpecShort ==
  InitWith({<<ESC, 42, 0, 2, 0, 81, 81>>,
            <<GS, 118, 48, 0, 1, 0, 2, 0, 81, 81>>,
            <<GS, 56, 76, 12, 0, 0, 0, 48, 67, 48, 1, 1, 49, 8, 0, 2, 0, 81, 81>>,
            <<GS, 56, 76, 8, 0, 0, 0, 49, 67, 48, 1, 1, 49, 81, 81>>,
            <<GS, 56, 77, 2, 0, 0, 0, 81, 81>>,
            <<GS, 40, 107, 5, 0, 49, 80, 81, 81>>, TxtA, TxtLine},
           Release)
  /\ [][Next]_vars

\* ------------------------------------------- two connections in parallel
\* The most commands the second client sends in a run.
MaxPeerCmds == 1

\* the byte stream of the second connection, and one socket.read of k bytes
peer_stream == Flatten(peer.cmds)

PeerChunk(k) == SubSeq(peer_stream, peer.sent + 1, peer.sent + k)

\* main has accepted both connections and spawned a handle_client for each;
\* neither task has run yet
InitClients(lib, peer_lib, addrs) ==
  /\ cmds \in Programs(lib, MaxCmds)
  /\ sent = 0
  /\ renderer = NewRenderer
  /\ pc = "connect"
  /\ socket_out = <<>>
  /\ app_elements = <<>>
  /\ overflow_checks \in Release
  /\ connections = <<>>
  /\ addr \in addrs
  /\ peer \in {p \in [addr : addrs, cmds : Programs(peer_lib, MaxPeerCmds),
                      sent : {0}, renderer : {NewRenderer}, pc : {"connect"},
                      socket_out : {<<>>}] : p.addr # addr}

\* the head of handle_client: connections.push(format!("Connected: {}", addr))
Connect ==
  /\ pc = "connect"
  /\ connections' = Append(connections, Entry(addr))
  /\ pc' = "read"
  /\ UNCHANGED <<cmds, sent, renderer, socket_out, app_elements, overflow_checks,
               addr, peer>>

\* socket.read returned Err(e): the loop is left, the list is not touched
ReadError ==
  /\ pc = "read"
  /\ pc' = "closed"
  /\ UNCHANGED <<cmds, sent, renderer, socket_out, app_elements, overflow_checks,
               connections, addr, peer>>

\* the same steps of the second connection's task
PeerConnect ==
  /\ peer.pc = "connect"
  /\ connections' = Append(connections, Entry(peer.addr))
  /\ peer' = [peer EXCEPT !.pc = "read"]
  /\ UNCHANGED <<cmds, sent, renderer, pc, socket_out, app_elements,
               overflow_checks, addr>>

PeerRead ==
  /\ peer.pc = "read"
  /\ \E k \in 1..(Len(peer_stream) - peer.sent) :
       LET r == process_data(peer.renderer, PeerChunk(k))
       IN peer' = [peer EXCEPT !.renderer = r.self,
                               !.pc = IF r.panic THEN "panicked" ELSE "respond",
                               !.sent = @ + k]
  /\ UNCHANGED <<cmds, sent, renderer, pc, socket_out, app_elements,
               overflow_checks, connections, addr>>

PeerSendResponses ==
  /\ peer.pc = "respond"
  /\ peer' = [peer EXCEPT !.socket_out = @ \o peer.renderer.response_queue,
                          !.renderer.response_queue = <<>>,
                          !.pc = "forward"]
  /\ UNCHANGED <<cmds, sent, renderer, pc, socket_out, app_elements,
               overflow_checks, connections, addr>>

PeerForwardElements ==
  /\ peer.pc = "forward"
  /\ app_elements' = app_elements \o peer.renderer.elements
  /\ peer' = [peer EXCEPT !.renderer.elements = <<>>, !.pc = "read"]
  /\ UNCHANGED <<cmds, sent, renderer, pc, socket_out, overflow_checks,
               connections, addr>>

PeerEof ==
  /\ peer.pc = "read"
  /\ peer.sent = Len(peer_stream)
  /\ connections' = Retain(connections, peer.addr)
  /\ peer' = [peer EXCEPT !.pc = "closed"]
  /\ UNCHANGED <<cmds, sent, renderer, pc, socket_out, app_elements,
               overflow_checks, addr>>

PeerReadError ==
  /\ peer.pc = "read"
  /\ peer' = [peer EXCEPT !.pc = "closed"]
  /\ UNCHANGED <<cmds, sent, renderer, pc, socket_out, app_elements,
               overflow_checks, connections, addr>>

NextClients ==
  \/ Connect \/ Read \/ SendResponses \/ ForwardElements \/ Eof \/ ReadError
  \/ PeerConnect \/ PeerRead \/ PeerSendResponses \/ PeerForwardElements
  \/ PeerEof \/ PeerReadError

\* two clients that print lines: "A" and "C" on one connection, "B" and "D"
\* on the other
SpecClients ==
  InitClients({<<65, LF>>, <<65, LF, 67, LF>>}, {<<66, LF>>, <<66, LF, 68, LF>>},
              {AddrHost5, AddrHost6})
  /\ [][NextClients]_vars

\* two clients that print a line or two and close, from every pair of the
\* three peer addresses
SpecConnections ==
  InitClients({TxtLine}, {TxtLine}, {AddrHost5, AddrHost110, AddrHost6})
  /\ [][NextClients]_vars

\* text and tabs among commands of the four introducers, complete and cut
\* short by the end of a read: ESC E, ESC *, GS r, FS !, DLE EOT
SpecShape ==
  InitWith({TxtA, CmdHt, CmdLf, CmdEscBold, CmdEscStar, CmdGsR,
            <<FS, 33, 0>>, CmdDleEot},
           Release)
  /\ [][Next]_vars

\* The most bytes a client sends when it sends arbitrary bytes.
MaxBytes == 4

\* every byte string of up to MaxBytes bytes over ESC, GS, FS, DLE, LF, 'A',
\* '(', '*', '8' and 0x01, delivered in every chunking
InitBytes ==
  /\ cmds \in Programs({<<b>> : b \in {ESC, GS, FS, DLE, LF, 65, 40, 42, 56, 1}},
                       MaxBytes)
  /\ sent = 0
  /\ renderer = NewRenderer
  /\ pc = "read"
  /\ socket_out = <<>>
  /\ app_elements = <<>>
  /\ overflow_checks \in Release
  /\ addr = AddrHost5
  /\ connections = <<Entry(addr)>>
  /\ peer = NoPeer

SpecBytes == InitBytes /\ [][Next]_vars

\* text that ends a read, followed in the next read by text, a line feed, a
\* tab, a control byte (SOH), a formatting command or a raster
SpecHeld ==
  InitWith({TxtA, <<65, 65>>, CmdLf, CmdHt, <<SOH>>, CmdEscBold, CmdEscStar},
           Release)
  /\ [][Next]_vars

\* commands that rewind until their payload is complete (ESC *, GS v 0,
\* GS 8 L, QR store with its print) behind commands that emit or reply at
\* once (a line of text, GS r, DLE EOT)
SpecRewind ==
  InitWith({CmdEscStar, CmdGsV0, CmdGs8L, CmdQr, CmdGsR, CmdDleEot, TxtLine},
           Release)
  /\ [][Next]_vars

\* ------------------------------------------------------------ properties
\* everything the renderer has emitted on the connection, drained or not
AllElements == app_elements \o renderer.elements

\* everything the renderer has queued for the reverse channel
AllResponses == socket_out \o renderer.response_queue

\* the bytes delivered so far
Delivered == SubSeq(stream, 1, sent)

\* the stream offset at which command t ends (0 for t = 0)
RECURSIVE CmdEnd(_)
CmdEnd(t) == IF t = 0 THEN 0 ELSE CmdEnd(t - 1) + Len(cmds[t])

Boundary(p) == \E t \in 0..Len(cmds) : CmdEnd(t) = p

\* the command that offset p cuts in two, if any
Cut(p) == {t \in 1..Len(cmds) : CmdEnd(t - 1) < p /\ p < CmdEnd(t)}

Introducers == {ESC, GS, FS, DLE, DC2}

\* a process_data call has just returned
Parsed == pc = "read" /\ pc' # "read" /\ sent' > sent

\* C1: chunk-independence -- the elements and the response bytes produced by
\* feeding the delivered bytes chunk by chunk equal those of one process_data
\* call on all of them.
ChunkIndependence ==
  pc # "panicked" =>
    LET one == process_data(NewRenderer, Delivered)
    IN ~one.panic =>
         /\ AllElements = one.self.elements
         /\ AllResponses = one.self.response_queue

\* C2: no command is partially applied -- when a chunk ends inside a command,
\* process_data keeps the bytes from the introducer onward in the buffer and,
\* if the call started at the introducer, leaves state, current_line and both
\* queues as they were; the call that brings the missing bytes applies the
\* command in full.
NoPartialCommandStep ==
  /\ (Parsed /\ \E t \in Cut(sent') : cmds[t][1] \in Introducers) =>
       LET t == CHOOSE u \in Cut(sent') : TRUE
       IN /\ pc' = "respond"
          /\ renderer'.buffer = SubSeq(stream, CmdEnd(t - 1) + 1, sent')
          /\ (renderer.buffer = <<>> /\ sent = CmdEnd(t - 1)) =>
               /\ renderer'.state = renderer.state
               /\ renderer'.current_line = renderer.current_line
               /\ renderer'.elements = renderer.elements
               /\ renderer'.response_queue = renderer.response_queue
  /\ (Parsed /\ \E t \in Cut(sent) :
                  /\ cmds[t][1] \in Introducers
                  /\ sent' = CmdEnd(t)
                  /\ renderer.buffer = SubSeq(stream, CmdEnd(t - 1) + 1, sent)) =>
       LET t == CHOOSE u \in Cut(sent) : TRUE
           whole == process_data([renderer EXCEPT !.buffer = <<>>], cmds[t])
       IN /\ pc' = "respond"
          /\ renderer' = whole.self

NoPartialCommand == [][NoPartialCommandStep]_vars

\* C3: no-leak -- no byte of a length-declared payload is appended to
\* current_line or appears in a Text element.  In the inputs of SpecPayload
\* the byte 'Q' occurs in payloads only.
NoLeak ==
  /\ \A j \in 1..Len(renderer.current_line) :
       renderer.current_line[j] # 81
  /\ \A k \in 1..Len(AllElements) :
       AllElements[k].type = "Text" =>
         \A j \in 1..Len(AllElements[k].content) :
           AllElements[k].content[j] # 81

\* C4: nothing is fatal -- process_data returns normally for every input and
\* every chunking.
NeverPanics == pc # "panicked"

\* C5: each complete query command appends exactly its specified bytes, and no
\* other command appends anything -- whenever the pending buffer and the chunk
\* together are a run of whole commands, the call appends to the response
\* queue the specified replies of those commands, in order, and nothing else.
SpecifiedReply(c) ==
  IF Len(c) = 3 /\ c[1] = 16 /\ c[2] \in {4, 5} THEN <<18>>
  ELSE IF Len(c) = 3 /\ c[1] = 29 /\ c[2] = 114 THEN <<8>>
  ELSE IF Len(c) = 3 /\ c[1] = 29 /\ c[2] = 97 /\ c[3] # 0 THEN <<16, 0, 0, 0>>
  ELSE IF c = <<29, 73, 66>> THEN <<95, 67, 73, 84, 73, 90, 69, 78, 0>>
  ELSE IF c = <<29, 73, 67>> THEN <<95, 67, 84, 45, 83, 51, 49, 48, 0>>
  ELSE <<>>

\* the specified replies of commands a+1 .. b
RECURSIVE SpecifiedReplies(_, _)
SpecifiedReplies(a, b) ==
  IF a >= b THEN <<>>
  ELSE SpecifiedReplies(a, b - 1) \o SpecifiedReply(cmds[b])

QueryRepliesStep ==
  (Parsed /\ Boundary(sent - Len(renderer.buffer)) /\ Boundary(sent')) =>
    LET a == CHOOSE t \in 0..Len(cmds) : CmdEnd(t) = sent - Len(renderer.buffer)
        b == CHOOSE t \in 0..Len(cmds) : CmdEnd(t) = sent'
    IN /\ pc' = "respond"
       /\ renderer'.response_queue =
            renderer.response_queue \o SpecifiedReplies(a, b)

QueryReplies == [][QueryRepliesStep]_vars

\* GS I 0x42 and GS a 0xFF have arrived and their replies have been written
QueryRepliesWitness ==
  /\ pc = "forward"
  /\ cmds = <<(<<29, 73, 66>>), (<<29, 97, 255>>)>>
  /\ sent = Len(stream)
  /\ socket_out = <<95, 67, 73, 84, 73, 90, 69, 78, 0, 16, 0, 0, 0>>

\* C6: response ordering -- once the whole input has been delivered, the
\* response bytes accumulated over all calls are the specified replies of
\* its query commands in input order, whatever the chunk boundaries.
ResponseOrdering ==
  (sent = Len(stream) /\ pc # "panicked") =>
    AllResponses = SpecifiedReplies(0, Len(cmds))

\* C7: one-shot offset -- in a call that parses no byte of an ESC $ or ESC \,
\* every Text, Raster or QR element after the first one emitted carries
\* offset 0, the first carries the pending offset or 0, and once one has been
\* emitted horizontal_offset is 0.
Consuming(es) ==
  SelectSeq(es, LAMBDA e : e.type \in {"Text", "RasterImage", "QrCode"})

\* does the byte range (lo, hi] of the stream meet an ESC $ or an ESC \ ?
MeetsOffsetCmd(lo, hi) ==
  \E t \in 1..Len(cmds) :
    /\ cmds[t][1] = 27 /\ cmds[t][2] \in {36, 92}
    /\ CmdEnd(t - 1) < hi /\ CmdEnd(t) > lo

OneShotOffsetStep ==
  (Parsed /\ pc' = "respond"
     /\ ~MeetsOffsetCmd(sent - Len(renderer.buffer), sent')) =>
    LET cons == Consuming(SubSeq(renderer'.elements, Len(renderer.elements) + 1,
                                 Len(renderer'.elements)))
        old == renderer.state.horizontal_offset
    IN /\ \A k \in 2..Len(cons) : cons[k].offset = 0
       /\ cons # <<>> => /\ cons[1].offset \in {old, 0}
                         /\ renderer'.state.horizontal_offset = 0
       /\ cons = <<>> => renderer'.state.horizontal_offset \in {old, 0}

OneShotOffset == [][OneShotOffsetStep]_vars

\* text positioned by ESC $ 5 was flushed by a raster command: the Text
\* carries offset 5, the Raster behind it offset 0
OneShotOffsetWitness ==
  /\ Len(app_elements) = 2
  /\ app_elements[1].type = "Text" /\ app_elements[1].offset = 5
  /\ app_elements[2].type = "RasterImage" /\ app_elements[2].offset = 0
  /\ renderer.state.horizontal_offset = 0

\* C8: init idempotence -- after one ESC @ and after a second one right behind
\* it, every PrinterState field has the value it has in a freshly constructed
\* parser.
FreshState == NewRenderer.state

AfterInit(p) ==
  \E t \in 1..Len(cmds) :
    \/ cmds[t] \in {<<27, 64>>, <<27, 64, 27, 64>>} /\ p = CmdEnd(t)
    \/ cmds[t] = <<27, 64, 27, 64>> /\ p = CmdEnd(t) - 2

InitIdempotent ==
  (pc # "panicked" /\ AfterInit(sent)) =>
    /\ renderer.state = FreshState
    /\ renderer.buffer = <<>>

\* formatting commands, then ESC @ twice, all parsed
InitIdempotentWitness ==
  /\ pc = "respond"
  /\ Len(cmds) = 2 /\ cmds[1] = CmdSetA /\ cmds[2] = <<27, 64, 27, 64>>
  /\ sent = Len(stream)
  /\ renderer.state = FreshState

\* C9: a chunk that ends with a lone ESC produces no element, no response byte
\* and no change to printer state or current_line, leaves the ESC in the
\* buffer, and the command is parsed from that ESC when the next chunk
\* completes it.
LoneEscStep ==
  /\ (Parsed /\ renderer.buffer = <<>> /\ Chunk(sent' - sent) = <<27>>) =>
       /\ pc' = "respond"
       /\ renderer' = [renderer EXCEPT !.buffer = <<27>>,
                                       !.in_command_sequence = TRUE]
  /\ (Parsed /\ stream[sent'] = 27 /\ Boundary(sent' - 1)) =>
       /\ pc' = "respond"
       /\ renderer'.buffer = <<27>>
  /\ (Parsed /\ renderer.buffer = <<27>>
        /\ \E t \in 1..Len(cmds) : sent = CmdEnd(t - 1) + 1 /\ sent' = CmdEnd(t)) =>
       LET t == CHOOSE u \in 1..Len(cmds) : sent' = CmdEnd(u)
           whole == process_data([renderer EXCEPT !.buffer = <<>>,
                                                  !.in_command_sequence = FALSE],
                                 cmds[t])
       IN /\ pc' = "respond"
          /\ renderer' = whole.self

LoneEsc == [][LoneEscStep]_vars

\* ESC G 1 was applied, then a chunk brought only the ESC of the next command
LoneEscWitness ==
  /\ pc = "respond"
  /\ Len(cmds) = 2 /\ cmds[1] = <<27, 71, 1>> /\ sent = 4
  /\ renderer.buffer = <<27>>
  /\ renderer.state.double_strike
  /\ renderer.elements = <<>> /\ renderer.response_queue = <<>>

\* C10: a raster command that declares width 0 emits no element.  The raster
\* commands in the inputs of SpecZero all declare width 0.
ZeroWidthEmitsNothing ==
  \A k \in 1..Len(AllElements) : AllElements[k].type # "RasterImage"

\* C11: QR round-trip -- a call that parses whole messages, entered with the
\* payload of the last unprinted store message in qr_data, keeps the payload
\* of every store message (cn = 49, fn = 80, pL pH = payload length + 3) and
\* emits for every print message that follows one exactly one QR element
\* whose payload is that payload, and no other QR element.
IsQrMessage(c, fn) ==
  /\ Len(c) >= 7
  /\ c[1] = 29 /\ c[2] = 40 /\ c[3] = 107 /\ c[6] = 49 /\ c[7] = fn

\* the payload a store message carries: its last pL + pH * 256 - 3 bytes
StoredPayload(c) == SubSeq(c, Len(c) - (c[4] + c[5] * 256 - 3) + 1, Len(c))

\* the payload stored and not yet printed after commands 1..t
RECURSIVE PendingPayload(_)
PendingPayload(t) ==
  IF t = 0 THEN <<>>
  ELSE IF IsQrMessage(cmds[t], 80) THEN StoredPayload(cmds[t])
  ELSE IF IsQrMessage(cmds[t], 81) THEN <<>>
  ELSE PendingPayload(t - 1)

\* the payloads of the QR elements that commands a+1..b are to emit
RECURSIVE ExpectedQrPayloads(_, _)
ExpectedQrPayloads(a, b) ==
  IF a >= b THEN <<>>
  ELSE ExpectedQrPayloads(a, b - 1)
       \o (IF IsQrMessage(cmds[b], 81) /\ PendingPayload(b - 1) # <<>>
             THEN <<PendingPayload(b - 1)>> ELSE <<>>)

QrPayloads(es) ==
  LET qrs == SelectSeq(es, LAMBDA e : e.type = "QrCode")
  IN [k \in 1..Len(qrs) |-> qrs[k].data]

QrRoundTripStep ==
  (Parsed /\ Boundary(sent - Len(renderer.buffer)) /\ Boundary(sent')) =>
    LET a == CHOOSE t \in 0..Len(cmds) : CmdEnd(t) = sent - Len(renderer.buffer)
        b == CHOOSE t \in 0..Len(cmds) : CmdEnd(t) = sent'
    IN renderer.qr_data = PendingPayload(a) =>
       /\ pc' = "respond"
       /\ renderer'.qr_data = PendingPayload(b)
       /\ QrPayloads(SubSeq(renderer'.elements, Len(renderer.elements) + 1,
                            Len(renderer'.elements)))
            = ExpectedQrPayloads(a, b)

QrRoundTrip == [][QrRoundTripStep]_vars

\* C12: split raster -- wherever the chunk boundaries fall inside the header
\* or the column data of an ESC * command, the bytes of the unfinished command
\* wait in the buffer, and the elements emitted so far are those one
\* process_data call emits for the commands that have fully arrived: one
\* Raster element per ESC * command and no Text element.
Arrived == CHOOSE t \in 0..Len(cmds) :
             CmdEnd(t) <= sent /\ (t = Len(cmds) \/ CmdEnd(t + 1) > sent)

IsEscStar(c) == Len(c) >= 2 /\ c[1] = 27 /\ c[2] = 42

SplitRaster ==
  /\ pc # "panicked"
  /\ renderer.buffer = SubSeq(stream, CmdEnd(Arrived) + 1, sent)
  /\ AllElements =
       process_data(NewRenderer, SubSeq(stream, 1, CmdEnd(Arrived))).self.elements
  /\ Len(SelectSeq(AllElements, LAMBDA e : e.type = "RasterImage"))
       = Cardinality({t \in 1..Arrived : IsEscStar(cmds[t])})
  /\ \A k \in 1..Len(AllElements) : AllElements[k].type # "Text"

\* ESC * 0 08 00 AA 55 AA 55 AA 55 AA 55 has arrived and its one Raster
\* element, 8 x 8 with the converted bitmap, has been forwarded
SplitRasterWitness ==
  /\ cmds = <<(<<27, 42, 0, 8, 0, 170, 85, 170, 85, 170, 85, 170, 85>>)>>
  /\ sent = Len(stream) /\ pc = "read"
  /\ Len(app_elements) = 1
  /\ app_elements[1].type = "RasterImage"
  /\ app_elements[1].width = 8 /\ app_elements[1].height = 8
  /\ app_elements[1].data = <<170, 85, 170, 85, 170, 85, 170, 85>>

\* C13: Text carries the formatting in effect when its bytes were received --
\* once the whole input has arrived and every line has been flushed, each
\* byte of text is in a Text element whose bold flag is the bold attribute
\* that was in effect when that byte arrived ("Hi" between ESC E 1 and ESC E 0
\* is bold; of "Hello ", "World", "!" only "World" is).
\* The text bytes of an input of ESC @, ESC E n, LF and text, each paired with
\* the bold attribute in effect at its place in the input.
RECURSIVE ReceivedText(_, _)
ReceivedText(bytes, bold) ==
  IF bytes = <<>> THEN <<>>
  ELSE IF bytes[1] = 27 /\ Len(bytes) >= 3 /\ bytes[2] = 69
    THEN ReceivedText(SubSeq(bytes, 4, Len(bytes)), bytes[3] = 1)
  ELSE IF bytes[1] = 27 /\ Len(bytes) >= 2 /\ bytes[2] = 64
    THEN ReceivedText(SubSeq(bytes, 3, Len(bytes)), FALSE)
  ELSE IF bytes[1] = 10 THEN ReceivedText(Tail(bytes), bold)
  ELSE <<(<<bytes[1], bold>>)>> \o ReceivedText(Tail(bytes), bold)

\* the bytes of the Text elements, each paired with its element's bold flag
RECURSIVE EmittedText(_)
EmittedText(es) ==
  IF es = <<>> THEN <<>>
  ELSE (IF Head(es).type = "Text"
          THEN [k \in 1..Len(Head(es).content) |->
                  <<Head(es).content[k], Head(es).bold>>]
          ELSE <<>>)
       \o EmittedText(Tail(es))

FormattingAtReceipt ==
  (sent = Len(stream) /\ pc # "panicked"
     /\ renderer.current_line = <<>> /\ renderer.buffer = <<>>) =>
    EmittedText(AllElements) = ReceivedText(stream, FALSE)

\* C14: consecutive FormFeed elements collapse to one -- the elements
\* delivered to the renderer buffer never hold two adjacent FormFeed elements,
\* also when the FF bytes arrive in different chunks with the element queue
\* drained in between.
NoAdjacentFormFeed ==
  \A k \in 1..(Len(app_elements) - 1) :
    ~(app_elements[k].type = "FormFeed" /\ app_elements[k + 1].type = "FormFeed")

\* C15: a Separator is never the first element of a connection's element
\* stream -- neither LF on an empty line nor ESC d n nor ESC J n appends one
\* while nothing has been emitted yet.
SeparatorNeverFirst ==
  AllElements # <<>> => AllElements[1].type # "Separator"

\* C16: a Text element is appended only for a non-empty current_line and only
\* by LF, CR or the forced flush before an image element -- every Text
\* element has content, and a call that parses no byte of a line terminator,
\* a raster command or a QR print appends no Text element.
\* the commands of the inputs that end a line or emit an image element
Flushing == {TxtLine, CmdLf, CmdCr, CmdEscStar, CmdGsV0, CmdQr}

\* does the byte range (lo, hi] of the stream meet one of them ?
MeetsFlushing(lo, hi) ==
  \E t \in 1..Len(cmds) :
    /\ cmds[t] \in Flushing
    /\ CmdEnd(t - 1) < hi /\ CmdEnd(t) > lo

TextOnlyOnFlushStep ==
  (Parsed /\ pc' = "respond") =>
    LET new == SelectSeq(SubSeq(renderer'.elements, Len(renderer.elements) + 1,
                                Len(renderer'.elements)),
                         LAMBDA e : e.type = "Text")
    IN /\ \A k \in 1..Len(new) : new[k].content # <<>>
       /\ ~MeetsFlushing(sent - Len(renderer.buffer), sent') => new = <<>>

TextOnlyOnFlush == [][TextOnlyOnFlushStep]_vars

\* C17: elements are emitted in program order -- process_data only appends to
\* the element queue and the stream of elements only grows; for any two
\* elements, a command that emits the kind of the first does not come after
\* every command that emits the kind of the second; and a Raster, QR or
\* PaperCut element of a command with text in front of it comes right behind
\* the Text of that text (unless a Raster came earlier: text behind a Raster
\* is dropped until the next LF or CR).  In the inputs of SpecOrder every
\* raster, QR and cut command has text in front of it.
IsPrefix(s, t) == Len(s) <= Len(t) /\ SubSeq(t, 1, Len(s)) = s

\* the kinds of element a command of the inputs can emit: LF a Text or a
\* Separator, text in front of a command a Text
Emits(c) ==
  CASE c = TxtLine -> {"Text", "Separator"}
    [] c = TxtStar -> {"Text", "RasterImage"}
    [] c = TxtQr -> {"Text", "QrCode"}
    [] c = TxtCut -> {"Text", "PaperCut"}
    [] c = CmdFf -> {"FormFeed"}
    [] c = CmdEscFeed -> {"Separator"}
    [] OTHER -> {}

InProgramOrder(es) ==
  \A i, j \in 1..Len(es) :
    i < j => \E t, u \in 1..Len(cmds) :
               t <= u /\ es[i].type \in Emits(cmds[t])
                      /\ es[j].type \in Emits(cmds[u])

TextBeforeImage(es) ==
  \A k \in 1..Len(es) :
    es[k].type \in {"RasterImage", "QrCode", "PaperCut"} =>
      /\ k > 1
      /\ \/ es[k - 1].type = "Text"
         \/ \E j \in 1..(k - 1) : es[j].type = "RasterImage"

ProgramOrderStep ==
  /\ Parsed => IsPrefix(renderer.elements, renderer'.elements)
  /\ IsPrefix(AllElements, AllElements')
  /\ InProgramOrder(AllElements')
  /\ TextBeforeImage(AllElements')

ProgramOrder == [][ProgramOrderStep]_vars

\* "A" GS V 0 and "A" ESC * have been parsed: the text of each is in front
\* of its element
ProgramOrderWitness ==
  /\ Len(cmds) = 2 /\ cmds[1] = TxtCut /\ cmds[2] = TxtStar
  /\ sent = Len(stream)
  /\ Len(AllElements) = 4
  /\ AllElements[1].type = "Text" /\ AllElements[2].type = "PaperCut"
  /\ AllElements[3].type = "Text" /\ AllElements[4].type = "RasterImage"

\* C18: host protocol order -- process_data is only called with both queues
\* drained and every response byte produced so far written to the socket;
\* after it the loop first moves the whole response queue to the socket, then
\* moves the whole element queue to the renderer buffer, and only then reads
\* again.
HostOrderStep ==
  /\ Parsed =>
       /\ renderer.response_queue = <<>> /\ renderer.elements = <<>>
       /\ socket_out' = socket_out /\ app_elements' = app_elements
  /\ pc = "respond" =>
       /\ pc' = "forward" /\ sent' = sent
       /\ socket_out' = socket_out \o renderer.response_queue
       /\ renderer' = [renderer EXCEPT !.response_queue = <<>>]
       /\ app_elements' = app_elements
  /\ pc = "forward" =>
       /\ pc' = "read" /\ sent' = sent
       /\ renderer.response_queue = <<>>
       /\ app_elements' = app_elements \o renderer.elements
       /\ renderer' = [renderer EXCEPT !.elements = <<>>]
       /\ socket_out' = socket_out

RejectedGsV0(buf) ==
  /\ Len(buf) >= 8 /\ buf[1] = 29 /\ buf[2] = 118
  /\ LET width_in_bytes == buf[5] + buf[6] * 256
         height == buf[7] + buf[8] * 256
     IN \/ width_in_bytes * 8 > 10000 \/ height > 10000
        \/ width_in_bytes * height > 5000000

\* the buffer starts with a complete GS 8 L header over a cap
RejectedGs8L(buf) ==
  /\ Len(buf) >= 17 /\ buf[1] = 29 /\ buf[2] = 56 /\ buf[3] = 76
  /\ buf[8] \in {48, 112}
  /\ LET len == buf[4] + buf[5] * 256 + buf[6] * 65536 + buf[7] * 16777216
         width == buf[14] + buf[15] * 256
         height == buf[16] + buf[17] * 256
     IN len > 100000 \/ DivCeil(width, 8) * height > 5000000

\* the bytes the command at the head of the buffer declares behind its header
DeclaredPayload(buf) ==
  IF RejectedGsV0(buf)
    THEN (buf[5] + buf[6] * 256) * (buf[7] + buf[8] * 256)
    ELSE buf[4] + buf[5] * 256 + buf[6] * 65536 + buf[7] * 16777216

\* n bytes that are no command and no text
Filler(n) == [k \in 1..n |-> 0]

OversizedNeverBlocks ==
  (pc = "respond" /\ (RejectedGsV0(renderer.buffer)
                        \/ RejectedGs8L(renderer.buffer))) =>
    LET after == process_data(renderer,
                              Filler(DeclaredPayload(renderer.buffer) + 8))
    IN ~after.panic /\ after.self.buffer = <<>>

\* C20: from the emission of a Raster element until the next LF or CR no
\* printable byte of the input is appended to current_line -- a call that
\* parses no LF or CR and starts behind a Raster or emits one ends with
\* last_was_binary set and adds no input byte to current_line or to a Text
\* element behind that Raster (the four spaces of an HT are not input bytes);
\* last_was_binary is set only by a call that emits a Raster and cleared only
\* by a call that parses an LF or CR.
\* the bytes of a line other than the spaces an HT appends
Inked(line) == SelectSeq(line, LAMBDA b : b # 32)

RECURSIVE TextOf(_)
TextOf(es) ==
  IF es = <<>> THEN <<>>
  ELSE (IF Head(es).type = "Text" THEN Head(es).content ELSE <<>>)
       \o TextOf(Tail(es))

\* the position of the last Raster element of es, 0 if there is none
LastRaster(es) ==
  IF \E k \in 1..Len(es) : es[k].type = "RasterImage"
    THEN CHOOSE k \in 1..Len(es) :
           /\ es[k].type = "RasterImage"
           /\ \A j \in (k + 1)..Len(es) : es[j].type # "RasterImage"
    ELSE 0

NoTextAfterBinaryStep ==
  (Parsed /\ pc' = "respond") =>
    LET data == renderer.buffer \o Chunk(sent' - sent)
        ends == \E k \in 1..Len(data) : data[k] \in {10, 13}
        new == SubSeq(renderer'.elements, Len(renderer.elements) + 1,
                      Len(renderer'.elements))
        r == LastRaster(new)
        behind == TextOf(SubSeq(new, r + 1, Len(new)))
    IN /\ (~ends /\ r > 0) =>
            /\ renderer'.last_was_binary
            /\ Inked(behind \o renderer'.current_line) = <<>>
       /\ (~ends /\ r = 0 /\ renderer.last_was_binary) =>
            /\ renderer'.last_was_binary
            /\ IsPrefix(Inked(behind \o renderer'.current_line),
                        Inked(renderer.current_line))
       /\ (renderer'.last_was_binary /\ ~renderer.last_was_binary) => r > 0
       /\ (renderer.last_was_binary /\ ~renderer'.last_was_binary) => ends

StateBehind(c, st) ==
  CASE c = CmdEscInit -> DefaultState
    [] c = TxtBoldOn -> [st EXCEPT !.bold = TRUE]
    [] c = TxtSetA -> [st EXCEPT !.bold = TRUE, !.double_height = TRUE,
                                 !.double_width = TRUE, !.underline = TRUE,
                                 !.left_margin = 9, !.code_page = 17,
                                 !.encoding = "WINDOWS_1251",
                                 !.print_density = 7]
    [] c = TxtSetB -> [st EXCEPT !.print_area_width = 200, !.line_spacing = 40,
                                 !.character_spacing = 2, !.font = 1]
    [] c = TxtSetC -> [st EXCEPT !.inverted = TRUE, !.alignment = "Center",
                                 !.horizontal_offset = 5,
                                 !.double_strike = TRUE]
    [] OTHER -> st

\* the text command c adds to the line
TextIn(c) ==
  CASE c \in {TxtA, TxtBoldOn, TxtSetA, TxtSetB, TxtSetC} -> <<65>>
    [] OTHER -> <<>>

Terminator(c) == c \in {CmdLf, CmdCr}

\* the state and the pending line after commands 1..t; TxtMixedLine is a whole
\* line that ends with bold off
RECURSIVE Pending(_)
Pending(t) ==
  IF t = 0 THEN [st |-> DefaultState, line |-> <<>>]
  ELSE LET p == Pending(t - 1)
           c == cmds[t]
       IN IF Terminator(c) \/ c = TxtMixedLine
            THEN [st |-> [p.st EXCEPT !.horizontal_offset =
                            IF p.line = <<>> /\ Terminator(c) THEN @ ELSE 0,
                          !.bold = IF c = TxtMixedLine THEN FALSE ELSE @],
                  line |-> <<>>]
            ELSE [st |-> StateBehind(c, p.st), line |-> p.line \o TextIn(c)]

\* the attributes a Text element takes from state st
Snapshot(st) ==
  [ bold |-> st.bold, underline |-> st.underline,
    double_width |-> st.double_width, double_height |-> st.double_height,
    inverted |-> st.inverted, alignment |-> st.alignment,
    density |-> st.print_density, offset |-> st.horizontal_offset,
    left_margin |-> st.left_margin,
    character_spacing |-> st.character_spacing,
    double_strike |-> st.double_strike, font |-> st.font,
    print_area_width |-> st.print_area_width ]

\* content and attributes of the Text elements commands a+1..b are to emit
RECURSIVE FlushedLines(_, _)
FlushedLines(a, b) ==
  IF a >= b THEN <<>>
  ELSE LET p == Pending(b - 1)
           c == cmds[b]
       IN FlushedLines(a, b - 1)
          \o (IF c = TxtMixedLine
                THEN <<[content |-> p.line \o <<72, 87, 33>>,
                        attrs |-> Snapshot([p.st EXCEPT !.bold = FALSE])]>>
              ELSE IF Terminator(c) /\ p.line # <<>>
                THEN <<[content |-> p.line, attrs |-> Snapshot(p.st)]>>
              ELSE <<>>)

\* content and attributes of the Text elements es
Lines(es) ==
  [k \in 1..Len(es) |->
     [content |-> es[k].content,
      attrs |-> [f \in DOMAIN Snapshot(DefaultState) |-> es[k][f]]]]

AttributesAtFlushStep ==
  LET lo == sent - Len(renderer.buffer)
      hi == sent' - Len(renderer'.buffer)
  IN (Parsed /\ pc' = "respond" /\ Boundary(lo) /\ Boundary(hi)) =>
       LET a == CHOOSE t \in 0..Len(cmds) : CmdEnd(t) = lo
           b == CHOOSE t \in 0..Len(cmds) : CmdEnd(t) = hi
           new == SubSeq(renderer'.elements, Len(renderer.elements) + 1,
                         Len(renderer'.elements))
       IN (renderer.state = Pending(a).st
             /\ renderer.current_line = Pending(a).line) =>
            /\ renderer'.state = Pending(b).st
            /\ renderer'.current_line = Pending(b).line
            /\ Lines(SelectSeq(new, LAMBDA e : e.type = "Text"))
                 = FlushedLines(a, b)

RECURSIVE BlankTrack(_)
BlankTrack(t) ==
  IF t = 0 THEN [empty |-> TRUE, emitted |-> FALSE, blanks |-> 0]
  ELSE LET p == BlankTrack(t - 1)
           c == cmds[t]
       IN CASE c = TxtA -> [p EXCEPT !.empty = FALSE]
            [] c = TxtLine -> [p EXCEPT !.empty = TRUE, !.emitted = TRUE]
            [] c = CmdFf -> [p EXCEPT !.empty = TRUE, !.emitted = TRUE]
            [] c = CmdLf ->
                 IF p.empty
                   THEN [p EXCEPT !.blanks = IF p.emitted THEN @ + 1 ELSE @]
                   ELSE [p EXCEPT !.empty = TRUE, !.emitted = TRUE]
            [] OTHER -> p

BlankLineSeparator ==
  LET pos == sent - Len(renderer.buffer)
  IN (pc # "panicked" /\ Boundary(pos)) =>
       LET b == CHOOSE t \in 0..Len(cmds) : CmdEnd(t) = pos
       IN Len(SelectSeq(AllElements, LAMBDA e : e.type = "Separator"))
            = BlankTrack(b).blanks

\* C23: CR flushes a non-empty current_line into exactly one Text element and
\* empties it, as LF does, never appends a Separator and leaves both parser
\* flags false; with an empty current_line it changes nothing but the flags --
\* a call that parses one CR (or one LF, for the non-empty line) behind at most
\* one held printable byte leaves exactly that renderer, and a call that
\* parses no LF appends no Separator.
CarriageReturnStep ==
  LET chunk == Chunk(sent' - sent)
      buf == renderer.buffer
      data == buf \o chunk
      new == SubSeq(renderer'.elements, Len(renderer.elements) + 1,
                    Len(renderer'.elements))
      line == IF buf # <<>> /\ ~renderer.last_was_binary
                THEN Append(renderer.current_line, buf[1])
                ELSE renderer.current_line
      text == [type |-> "Text",
               content |-> DecodeLine(renderer.state, line)]
              @@ Snapshot(renderer.state)
      cleared == [renderer EXCEPT !.buffer = <<>>,
                                  !.in_command_sequence = FALSE,
                                  !.last_was_binary = FALSE]
  IN /\ (Parsed /\ chunk \in {<<CR>>, <<LF>>}
           /\ (buf = <<>> \/ (Len(buf) = 1 /\ Printable(buf[1])))) =>
          /\ pc' = "respond"
          /\ line # <<>> =>
               renderer' = [cleared EXCEPT !.current_line = <<>>,
                                           !.state.horizontal_offset = 0,
                                           !.elements = Append(@, text)]
          /\ (line = <<>> /\ chunk = <<CR>>) => renderer' = cleared
     /\ (Parsed /\ pc' = "respond" /\ \A k \in 1..Len(data) : data[k] # LF) =>
          \A k \in 1..Len(new) : new[k].type # "Separator"

CarriageReturn == [][CarriageReturnStep]_vars

\* ESC $ 5 0, "A", then CR in a read of its own: one Text "A" at offset 5, the
\* line empty, the offset back at 0, both flags false
CarriageReturnWitness ==
  /\ cmds = <<TxtAt5, CmdCr>> /\ sent = Len(stream)
  /\ pc = "respond"
  /\ Len(renderer.elements) = 1 /\ renderer.elements[1].type = "Text"
  /\ renderer.elements[1].content = <<65>>
  /\ renderer.elements[1].offset = 5
  /\ renderer.current_line = <<>> /\ renderer.state.horizontal_offset = 0
  /\ ~renderer.in_command_sequence /\ ~renderer.last_was_binary

\* C24: FF discards the pending current_line without emitting it as Text,
\* leaves the printer state and both parser flags unchanged, and appends a
\* FormFeed only if the last element of the queue is not one already -- a call
\* whose bytes are FF and printable bytes only leaves the renderer it found
\* with the text in front of the last FF gone, at most one FormFeed added and
\* nothing else changed; no call leaves two adjacent FormFeed in the queue.
FormFeedStep ==
  LET chunk == Chunk(sent' - sent)
      data == renderer.buffer \o chunk
      ffs == {k \in 1..Len(data) : data[k] = FF}
      last == CHOOSE k \in ffs : \A j \in ffs : j <= k
      tail == SubSeq(data, last + 1, Len(data))
      open == ~renderer.in_command_sequence /\ ~renderer.last_was_binary
      es == renderer.elements
      out == renderer'.elements
  IN /\ (Parsed /\ ffs # {}
           /\ \A k \in 1..Len(data) : data[k] = FF \/ Printable(data[k])) =>
          /\ pc' = "respond"
          /\ renderer' =
               [renderer EXCEPT
                  !.buffer = IF tail = <<>> THEN <<>> ELSE <<tail[Len(tail)]>>,
                  !.current_line = IF open /\ tail # <<>>
                                     THEN SubSeq(tail, 1, Len(tail) - 1)
                                     ELSE <<>>,
                  !.elements = IF es # <<>> /\ es[Len(es)].type = "FormFeed"
                                 THEN es
                                 ELSE Append(es, [type |-> "FormFeed"])]
     /\ (Parsed /\ pc' = "respond") =>
          \A k \in 1..(Len(out) - 1) :
             ~(out[k].type = "FormFeed" /\ out[k + 1].type = "FormFeed")

FormFeed == [][FormFeedStep]_vars

\* ESC E 1, then "A" FF FF: the pending "A" is gone, one FormFeed is queued,
\* no Text, bold still set
FormFeedWitness ==
  /\ cmds = <<CmdEscBold, TxtFfFf>> /\ sent = Len(stream)
  /\ pc = "respond"
  /\ renderer.elements = <<[type |-> "FormFeed"]>>
  /\ app_elements = <<>>
  /\ renderer.current_line = <<>> /\ renderer.buffer = <<>>
  /\ renderer.state.bold

\* C25: ESC ! n sets bold, double_height, double_width and underline to bits
\* 3, 4, 5 and 7 of n, GS ! n sets double_width iff (n & 7) > 0 and
\* double_height iff ((n >> 4) & 7) > 0, and neither changes anything else --
\* a call that parses one whole ESC ! n or GS ! n, alone or behind one held
\* printable byte, leaves the renderer it found with these fields set, the
\* held byte in the line, and no other field, element or response changed.
ModeSelectStep ==
  LET data == renderer.buffer \o Chunk(sent' - sent)
      held == Len(data) = 4 /\ Printable(data[1])
      cmd == IF held THEN Tail(data) ELSE data
      n == cmd[3]
      base == [renderer EXCEPT
                 !.buffer = <<>>, !.in_command_sequence = FALSE,
                 !.current_line = IF held /\ ~renderer.last_was_binary
                                        /\ ~renderer.in_command_sequence
                                    THEN Append(@, data[1]) ELSE @]
  IN (Parsed /\ (held \/ Len(data) = 3) /\ cmd[2] = 33
        /\ cmd[1] \in {ESC, GS}) =>
       /\ pc' = "respond"
       /\ cmd[1] = ESC =>
            renderer' = [base EXCEPT
                           !.state.bold = ((n \div 8) % 2 = 1),
                           !.state.double_height = ((n \div 16) % 2 = 1),
                           !.state.double_width = ((n \div 32) % 2 = 1),
                           !.state.underline = (n >= 128)]
       /\ cmd[1] = GS =>
            renderer' = [base EXCEPT
                           !.state.double_width = (n % 8 > 0),
                           !.state.double_height = ((n \div 16) % 8 > 0)]

ModeSelect == [][ModeSelectStep]_vars

\* ESC ! 30 behind GS B, ESC a, ESC $, ESC G: both double flags set, bold and
\* underline clear, the other fields as the first command left them
ModeSelectWitness ==
  /\ cmds = <<CmdSetC, CmdEscMode(48)>> /\ sent = Len(stream)
  /\ pc = "respond"
  /\ renderer.state.double_width /\ renderer.state.double_height
  /\ ~renderer.state.bold /\ ~renderer.state.underline
  /\ renderer.state.inverted /\ renderer.state.horizontal_offset = 5
  /\ renderer.elements = <<>> /\ renderer.response_queue = <<>>

\* C26: ESC \ nL nH sets horizontal_offset to max(0, old + d), d being
\* nL + 256 * nH read as a signed 16-bit value, for every old offset ESC $ can
\* set, without overflow or wrap -- a call that parses one whole ESC \ returns
\* normally and leaves exactly that offset.
RelativeMoveStep ==
  LET data == renderer.buffer \o Chunk(sent' - sent)
      u == data[3] + 256 * data[4]
      d == IF u >= 32768 THEN u - 65536 ELSE u
      old == renderer.state.horizontal_offset
  IN (Parsed /\ Len(data) = 4 /\ data[1] = ESC /\ data[2] = 92) =>
       /\ pc' = "respond"
       /\ renderer'.state.horizontal_offset = Max(0, old + d)

RelativeMove == [][RelativeMoveStep]_vars

\* C27: an ESC * whose width exceeds 10000 is skipped without emitting -- a
\* call that parses its header and the column data that has arrived emits no
\* element, changes no printer state, and takes none of the column data into
\* current_line.
WideRasterSkippedStep ==
  LET data == renderer.buffer \o Chunk(sent' - sent)
  IN (Parsed /\ data = CmdEscStarWideQ) =>
       /\ pc' = "respond"
       /\ renderer'.elements = renderer.elements
       /\ renderer'.state = renderer.state
       /\ renderer'.current_line = renderer.current_line

WideRasterSkipped == [][WideRasterSkippedStep]_vars

\* C28: a GS 8 L rejected for its size is skipped exactly -- a call whose
\* bytes begin with the whole declared block (GS 8 L, the 4 length bytes, then
\* len bytes) leaves the renderer that parsing the bytes behind the block
\* alone leaves; a call whose bytes are the header with a part of the data
\* rewinds to the GS and changes neither state, line nor elements.
RejectedSkipStep ==
  LET data == renderer.buffer \o Chunk(sent' - sent)
      block == CmdGs8LHuge
      behind == SubSeq(data, Len(block) + 1, Len(data))
      fresh == [renderer EXCEPT !.buffer = <<>>,
                                !.in_command_sequence = FALSE]
  IN /\ (Parsed /\ IsPrefix(block, data)) =>
          /\ pc' = "respond"
          /\ renderer' = process_data(fresh, behind).self
     /\ (Parsed /\ IsPrefix(data, block) /\ data # block
           /\ Len(data) >= Len(block) - 2) =>
          /\ pc' = "respond"
          /\ renderer'.buffer = data
          /\ renderer'.state = renderer.state
          /\ renderer'.current_line = renderer.current_line
          /\ renderer'.elements = renderer.elements

RejectedSkip == [][RejectedSkipStep]_vars

\* C29: column-to-row conversion -- the Raster element of an ESC * of width w
\* and height h in {8, 24} with w * (h / 8) bytes of column data holds
\* ceil(w / 8) * h bytes in which bit (7 - c mod 8) of byte
\* r * ceil(w / 8) + c div 8 is set iff bit (7 - r mod 8) of column byte
\* c * (h / 8) + r div 8 is set, for every column c < w and row r < h, and
\* every padding bit is 0.
ColumnToRaster ==
  \A n \in 1..Len(AllElements) :
    LET e == AllElements[n]
        c == cmds[1]
        w == c[4] + 256 * c[5]
        h == IF c[3] \in {32, 33} THEN 24 ELSE 8
        column == SubSeq(c, 6, Len(c))
        per_row == (w + 7) \div 8
        Set(byte, k) == (byte \div (2 ^ k)) % 2 = 1
    IN /\ e.type = "RasterImage" /\ n = 1
       /\ e.width = w /\ e.height = h
       /\ Len(column) = w * (h \div 8)
       /\ Len(e.data) = per_row * h
       /\ \A r \in 0..(h - 1) :
            /\ \A col \in 0..(w - 1) :
                 Set(e.data[r * per_row + (col \div 8) + 1], 7 - (col % 8))
                   <=> Set(column[col * (h \div 8) + (r \div 8) + 1],
                           7 - (r % 8))
            /\ \A col \in w..(8 * per_row - 1) :
                 ~Set(e.data[r * per_row + (col \div 8) + 1], 7 - (col % 8))

\* ESC * 33 of width 9 with the lowest bit of the last column byte set: row
\* 23, column 8, the top bit of the last byte of the result
ColumnToRasterWitness ==
  /\ cmds = <<ColumnCmd(33, 9, HotData(27, 27, 1))>>
  /\ Len(AllElements) = 1
  /\ Len(AllElements[1].data) = 48
  /\ AllElements[1].data[48] = 128
  /\ \A k \in 1..47 : AllElements[1].data[k] = 0

\* C30: every raster command that emits (ESC *, GS v 0, GS 8 L) flushes a
\* non-empty current_line into one Text element right in front of its Raster
\* element and empties the line, leaves last_was_binary true and
\* horizontal_offset 0, and gives the Raster the alignment, density, offset
\* and print-area width in effect when it is emitted (behind a flushed line
\* the offset is the 0 the flush left) -- a call that parses one whole raster
\* command, alone or behind one held printable byte, leaves exactly that.
RasterFlushStep ==
  LET data == renderer.buffer \o Chunk(sent' - sent)
      held == data # <<>> /\ Printable(data[1])
      cmd == IF held THEN Tail(data) ELSE data
      st == renderer.state
      line == IF held /\ ~renderer.last_was_binary
                      /\ ~renderer.in_command_sequence
                THEN Append(renderer.current_line, data[1])
                ELSE renderer.current_line
      text == [type |-> "Text", content |-> DecodeLine(st, line)]
              @@ Snapshot(st)
      old == Len(renderer.elements) + (IF line = <<>> THEN 0 ELSE 1)
      out == renderer'.elements
  IN (Parsed /\ cmd \in {CmdEscStar, CmdGsV0, CmdGs8L}) =>
       /\ pc' = "respond"
       /\ Len(out) = old + 1
       /\ SubSeq(out, 1, Len(renderer.elements)) = renderer.elements
       /\ line # <<>> => out[old] = text
       /\ out[old + 1].type = "RasterImage"
       /\ out[old + 1].alignment = st.alignment
       /\ out[old + 1].density = st.print_density
       /\ out[old + 1].print_area_width = st.print_area_width
       /\ out[old + 1].offset =
            IF line = <<>> THEN st.horizontal_offset ELSE 0
       /\ renderer'.current_line = <<>>
       /\ renderer'.last_was_binary
       /\ renderer'.state = [st EXCEPT !.horizontal_offset = 0]

RasterFlush == [][RasterFlushStep]_vars

\* ESC a 1, ESC ~ 7, GS W 200, ESC $ 5, then GS 8 L: a Raster, centred, with
\* density 7, offset 5 and print-area width 200; the offset is back at 0
RasterFlushWitness ==
  /\ cmds = <<CmdLayout, CmdGs8L>> /\ sent = Len(stream) /\ pc = "respond"
  /\ Len(AllElements) = 1
  /\ AllElements[1].type = "RasterImage"
  /\ AllElements[1].alignment = "Center" /\ AllElements[1].density = 7
  /\ AllElements[1].offset = 5 /\ AllElements[1].print_area_width = 200
  /\ renderer.last_was_binary /\ renderer.state.horizontal_offset = 0

\* C31: GS ( k fn 81 emits a QR element only if qr_data is non-empty; it then
\* flushes current_line first, emits one QR element whose size is
\* clamp(qr_size, 1, 16), and clears qr_data and horizontal_offset, so a
\* second print without a new store emits nothing; every QR element ever
\* emitted has size in 1..16 -- a call that parses one whole print message,
\* alone or behind one held printable byte, leaves exactly that.
QrSizes ==
  \A k \in 1..Len(AllElements) :
    AllElements[k].type = "QrCode" => AllElements[k].size \in 1..16

QrPrintStep ==
  LET data == renderer.buffer \o Chunk(sent' - sent)
      held == data # <<>> /\ Printable(data[1])
      cmd == IF held THEN Tail(data) ELSE data
      st == renderer.state
      line == IF held /\ ~renderer.last_was_binary
                      /\ ~renderer.in_command_sequence
                THEN Append(renderer.current_line, data[1])
                ELSE renderer.current_line
      text == [type |-> "Text", content |-> DecodeLine(st, line)]
              @@ Snapshot(st)
      old == IF line = <<>> THEN 0 ELSE 1
      out == renderer'.elements
  IN (Parsed /\ cmd = CmdQrPrint) =>
       /\ pc' = "respond"
       /\ renderer.elements = <<>>
       /\ renderer.qr_data = <<>> =>
            /\ out = <<>>
            /\ renderer'.current_line = line
            /\ renderer'.state = st
            /\ renderer'.qr_data = <<>>
       /\ renderer.qr_data # <<>> =>
            /\ Len(out) = old + 1
            /\ line # <<>> => out[1] = text
            /\ out[old + 1].type = "QrCode"
            /\ out[old + 1].data = from_utf8_lossy(renderer.qr_data)
            /\ out[old + 1].size =
                 IF renderer.qr_size < 1 THEN 1
                 ELSE IF renderer.qr_size > 16 THEN 16 ELSE renderer.qr_size
            /\ renderer'.current_line = <<>>
            /\ renderer'.qr_data = <<>>
            /\ renderer'.state = [st EXCEPT !.horizontal_offset = 0]

QrPrint == [][QrPrintStep /\ QrSizes']_vars

\* module size 200, a store and two prints: one QR element of size 16, and
\* the second print found qr_data empty
QrPrintWitness ==
  /\ cmds = << <<GS, 40, 107, 3, 0, 49, 67, 200>> \o CmdQr, CmdQrPrint >>
  /\ sent = Len(stream) /\ pc = "respond"
  /\ Len(AllElements) = 1
  /\ AllElements[1].type = "QrCode" /\ AllElements[1].size = 16
  /\ renderer.qr_data = <<>> /\ renderer.qr_size = 200

\* C32: when the payload of ESC *, GS v 0, GS 8 L, GS 8 fn or GS ( k fn 80 is
\* not fully present, the handler reports insufficient data without having
\* changed printer state, current_line, qr_data, the element queue or the
\* response queue; process_data stops with in_command_sequence = true and
\* drains the buffer only up to the introducer, and the retry on the next call
\* has the same effect as if the whole command had arrived at once -- for a
\* call whose bytes are the command from its introducer up to a point inside
\* its payload, alone or behind one held printable byte, and for the call that
\* brings the rest.
\* The length of the fixed header of a payload command (up to nH, yH, c, p4,
\* fn), 0 for any other command.
PayloadHeader(c) ==
  IF Len(c) < 7 THEN 0
  ELSE CASE c[1] = ESC /\ c[2] = 42 -> 5
         [] c[1] = GS /\ c[2] = 118 -> 8
         [] c[1] = GS /\ c[2] = 56 /\ c[3] = 76 -> 13
         [] c[1] = GS /\ c[2] = 56 -> 7
         [] c[1] = GS /\ c[2] = 40 /\ c[3] = 107 /\ c[7] = 80 -> 7
         [] OTHER -> 0

\* offset p lies inside command t, behind its complete header
InPayload(t, p) ==
  /\ t \in Cut(p)
  /\ PayloadHeader(cmds[t]) > 0
  /\ p - CmdEnd(t - 1) >= PayloadHeader(cmds[t])

ShortPayloadStep ==
  LET data == renderer.buffer \o Chunk(sent' - sent)
      held == data # <<>> /\ Printable(data[1])
      body == IF held THEN Tail(data) ELSE data
      line == IF held /\ ~renderer.last_was_binary
                      /\ ~renderer.in_command_sequence
                THEN Append(renderer.current_line, data[1])
                ELSE renderer.current_line
  IN /\ (Parsed /\ \E t \in 1..Len(cmds) :
                     /\ InPayload(t, sent')
                     /\ body = SubSeq(stream, CmdEnd(t - 1) + 1, sent')) =>
          /\ pc' = "respond"
          /\ renderer'.buffer = body
          /\ renderer'.in_command_sequence
          /\ renderer'.state = renderer.state
          /\ renderer'.current_line = line
          /\ renderer'.qr_data = renderer.qr_data
          /\ renderer'.elements = renderer.elements
          /\ renderer'.response_queue = renderer.response_queue
     /\ (Parsed /\ \E t \in 1..Len(cmds) :
                     /\ InPayload(t, sent)
                     /\ sent' = CmdEnd(t)
                     /\ renderer.buffer = SubSeq(stream, CmdEnd(t - 1) + 1, sent)) =>
          LET t == CHOOSE u \in 1..Len(cmds) : InPayload(u, sent)
              whole == process_data([renderer EXCEPT !.buffer = <<>>,
                                                     !.in_command_sequence = FALSE],
                                    cmds[t])
          IN /\ pc' = "respond"
             /\ renderer' = whole.self

ShortPayload == [][ShortPayloadStep]_vars

\* C33: parsers of parallel connections are isolated and the shared receipt
\* buffer is appended to under mutual exclusion: for any interleaving of the
\* chunks of two connections, the elements each connection contributes to the
\* shared buffer appear in that connection's own emission order, and the
\* elements of one process_data batch are appended contiguously, never
\* interleaved with another connection's batch.
\* Text elements of the first connection ("A", "C") and of the second
FromMain(e) == e.type = "Text" /\ e.content[1] \in {65, 67}

FromPeer(e) == e.type = "Text" /\ e.content[1] \in {66, 68}

\* what each connection has emitted, drained or not, is what its own bytes
\* give, in that order
OwnOrder ==
  /\ SelectSeq(app_elements, FromMain) \o renderer.elements
       = process_data(NewRenderer, Delivered).self.elements
  /\ SelectSeq(app_elements, FromPeer) \o peer.renderer.elements
       = process_data(NewRenderer,
                      SubSeq(peer_stream, 1, peer.sent)).self.elements

\* a step of one task leaves the other task alone, and the shared buffer only
\* ever grows by the whole batch of the task that forwards
IsolatedStep ==
  /\ <<cmds, sent, renderer, pc, socket_out>>'
       = <<cmds, sent, renderer, pc, socket_out>> \/ peer' = peer
  /\ app_elements' # app_elements =>
       \/ /\ pc = "forward" /\ peer' = peer
          /\ app_elements' = app_elements \o renderer.elements
          /\ renderer'.elements = <<>>
       \/ /\ peer.pc = "forward" /\ renderer' = renderer
          /\ app_elements' = app_elements \o peer.renderer.elements
          /\ peer'.renderer.elements = <<>>

Isolation == []OwnOrder /\ [][IsolatedStep]_vars

\* the batch "B", "D" of the second connection between the batches "A" and
\* "C" of the first
IsolationWitness ==
  /\ Len(app_elements) = 4
  /\ app_elements[1].content = <<65>> /\ app_elements[2].content = <<66>>
  /\ app_elements[3].content = <<68>> /\ app_elements[4].content = <<67>>

\* C39: the connection list holds exactly one entry per open connection at
\* all times: an entry is added when a client connects, and when a connection
\* ends (by EOF or by a read error) exactly that connection's entry is removed
\* and no other connection's entry is, for any interleaving of connects and
\* closes and any pair of peer addresses.
\* a handle_client task between its connections.push and the end of its loop
InLoop(p) == p \in {"read", "respond", "forward"}

OpenEntries ==
  (IF InLoop(pc) THEN {Entry(addr)} ELSE {})
    \cup (IF InLoop(peer.pc) THEN {Entry(peer.addr)} ELSE {})

ConnectionList ==
  /\ Len(connections) = Cardinality(OpenEntries)
  /\ {connections[k] : k \in 1..Len(connections)} = OpenEntries

\* C34: whenever process_data returns, the pending buffer is in one of three
\* shapes: empty; a single printable byte; or a sequence whose first byte is a
\* command introducer (ESC, GS, FS or DLE).  in_command_sequence is true at
\* return exactly when the buffer starts with an introducer, and it is false
\* every time a printable byte or HT is dispatched.
\* in_command_sequence is false at every iteration of the loop, from cursor i
\* on, that dispatches a printable byte or HT
RECURSIVE FlagClearAtText(_, _, _)
FlagClearAtText(self, data, i) ==
  IF i >= Len(data) THEN TRUE
  ELSE LET d == Dispatch(self, data, i)
       IN /\ (Printable(At(data, i)) \/ At(data, i) = HT) =>
               ~self.in_command_sequence
          /\ (d.stop \/ FlagClearAtText(d.self, data, d.i))

BufferShapeStep ==
  LET data == renderer.buffer \o Chunk(sent' - sent)
      b == renderer'.buffer
      starts == b # <<>> /\ b[1] \in {ESC, GS, FS, DLE}
  IN (Parsed /\ pc' = "respond") =>
       /\ b = <<>> \/ (Len(b) = 1 /\ Printable(b[1])) \/ starts
       /\ renderer'.in_command_sequence <=> starts
       /\ FlagClearAtText([renderer EXCEPT !.buffer = data], data, 0)

BufferShape == [][BufferShapeStep]_vars

\* "A" and an ESC * without its last column byte: the line holds "A", the
\* buffer the command from its ESC on, and the flag is set
BufferShapeWitness ==
  /\ cmds = <<TxtA, CmdEscStar>> /\ sent = Len(stream) - 1 /\ pc = "respond"
  /\ renderer.buffer = <<ESC, 42, 0, 1, 0>>
  /\ renderer.in_command_sequence
  /\ renderer.current_line = <<65>>

\* C35: every printable byte received appears in at most one Text element:
\* each path that flushes current_line into a Text element (LF, CR, before a
\* raster, before a QR code, before a paper cut) also empties current_line,
\* so the same text is never emitted twice.  In the inputs of SpecEmit the
\* byte 'A' occurs as text only: the Text elements and the pending line
\* together never hold more 'A's than have been delivered.
RECURSIVE CountA(_)
CountA(s) ==
  IF s = <<>> THEN 0 ELSE (IF Head(s) = 65 THEN 1 ELSE 0) + CountA(Tail(s))

RECURSIVE PrintedA(_)
PrintedA(es) ==
  IF es = <<>> THEN 0
  ELSE (IF Head(es).type = "Text" THEN CountA(Head(es).content) ELSE 0)
       + PrintedA(Tail(es))

TextEmittedOnce ==
  PrintedA(AllElements) + CountA(renderer.current_line) <= CountA(Delivered)

\* C36: the dispatch loop of process_data terminates for every buffer
\* content: each iteration either advances the cursor by at least one byte or
\* breaks out of the loop, so one call performs at most as many iterations as
\* there are buffered bytes.
\* the loop from cursor i on ends within n iterations, each of which advances
\* the cursor or leaves the loop
RECURSIVE LoopWithin(_, _, _, _)
LoopWithin(self, data, i, n) ==
  IF i >= Len(data) THEN TRUE
  ELSE IF n = 0 THEN FALSE
  ELSE LET d == Dispatch(self, data, i)
       IN d.stop \/ (d.i > i /\ LoopWithin(d.self, data, d.i, n - 1))

LoopTerminatesStep ==
  LET data == renderer.buffer \o Chunk(sent' - sent)
  IN (pc = "read" /\ sent' > sent) =>
       LoopWithin([renderer EXCEPT !.buffer = data], data, 0, Len(data))

LoopTerminates == [][LoopTerminatesStep]_vars

\* 'A', LF, ESC, '*': three iterations that advance (the third behind a
\* flushed line) and one that leaves the loop with the cursor back on the ESC
LoopTerminatesWitness ==
  /\ cmds = << <<65>>, <<LF>>, <<ESC>>, <<42>> >>
  /\ sent = 4 /\ pc = "respond"
  /\ renderer.buffer = <<ESC, 42>>
  /\ Len(AllElements) = 1 /\ AllElements[1].type = "Text"

\* C37 as stated, last clause: current_line never contains the final printable
\* byte received so far.  In the inputs of SpecHeld every printable text byte
\* is an 'A' and lines fill in the order of arrival: when every 'A' delivered
\* is in a Text element or in current_line, the final one is in current_line
\* unless the line holds none.
FinalByteNeverInLine ==
  (CountA(Delivered) > 0
     /\ PrintedA(AllElements) + CountA(renderer.current_line) = CountA(Delivered))
    => CountA(renderer.current_line) = 0

\* C37, amended: a printable byte that is the last byte of the pending buffer
\* is not consumed by that process_data call: it stays in the buffer and is
\* dispatched first in the next call that supplies at least one more byte,
\* under the flags in force at that time; it is neither lost nor appended
\* twice, and current_line never contains the last byte received so far when
\* that byte is printable text.
HeldByteStep ==
  LET chunk == Chunk(sent' - sent)
      b == renderer.buffer[1]
      line == IF ~renderer.last_was_binary /\ ~renderer.in_command_sequence
                THEN Append(renderer.current_line, b)
                ELSE renderer.current_line
      rest == process_data([renderer EXCEPT !.buffer = <<>>,
                                            !.current_line = line], chunk)
  IN /\ (Parsed /\ pc' = "respond" /\ stream[sent'] = 65) =>
          /\ renderer'.buffer = <<65>>
          /\ PrintedA(app_elements' \o renderer'.elements)
               + CountA(renderer'.current_line)
               <= CountA(SubSeq(stream, 1, sent')) - 1
     /\ (Parsed /\ Len(renderer.buffer) = 1 /\ Printable(b)) =>
          /\ (pc' = "panicked") = rest.panic
          /\ pc' = "respond" => renderer' = rest.self

HeldByte == [][HeldByteStep]_vars

\* "A" has arrived alone: it waits in the buffer and the line is empty
HeldByteWitness ==
  /\ cmds = <<TxtA, CmdLf>> /\ sent = 1 /\ pc = "respond"
  /\ renderer.buffer = <<65>>
  /\ renderer.current_line = <<>>

\* C38: rewinding never duplicates output: for one occurrence of a command in
\* the input, its element and its response bytes are appended at most once,
\* however many process_data calls re-parse that command from its introducer
\* before it completes, and commands already completed before the rewind point
\* are never parsed again.
\* how many of the commands in lib have arrived in full
Occurrences(lib) ==
  Cardinality({t \in 1..Len(cmds) : cmds[t] \in lib /\ CmdEnd(t) <= sent})

\* how many elements of a type have been emitted
Emitted(type) == Len(SelectSeq(AllElements, LAMBDA e : e.type = type))

NoDuplicates ==
  /\ Emitted("RasterImage") <= Occurrences({CmdEscStar, CmdGsV0, CmdGs8L})
  /\ Emitted("QrCode") <= Occurrences({CmdQr})
  /\ Len(AllResponses) <= Occurrences({CmdGsR, CmdDleEot})

\* GS r has been answered and drained from the buffer; the ESC * behind it
\* waits for its last byte, rewound to its ESC
NoDuplicatesWitness ==
  /\ cmds = <<CmdGsR, CmdEscStar>> /\ sent = Len(stream) - 1 /\ pc = "respond"
  /\ renderer.buffer = <<ESC, 42, 0, 1, 0>>
  /\ AllResponses = StatusGsR
  /\ AllElements = <<>>

\* C40: the GS 8 L and GS ( k handlers never read the buffer at an index at or
\* beyond its length: for every truncation point of their headers, whenever
\* the header-length guard passes, every header byte the handler then reads (up
\* to the byte c of GS 8 L and the byte fn of GS ( k) is present in the buffer.
\* A call whose buffer is one of these commands cut somewhere behind its third
\* byte does not panic on an index.
HeaderGuardStep ==
  LET data == renderer.buffer \o Chunk(sent' - sent)
  IN (Parsed /\ \E c \in {CmdGs8L, CmdQrStore, CmdQrPrint} :
                  \E n \in 3..Len(c) : data = SubSeq(c, 1, n)) =>
       pc' # "panicked"

HeaderGuard == [][HeaderGuardStep]_vars

====
